---- MODULE Spec2Model ----
(***************************************************************************)
(* policyengine-taxsim: the mapping between TAXSIM flat records and        *)
(* PolicyEngine situations / microsimulation datasets, and the runners     *)
(* that route, extract and re-assemble results.                            *)
(*                                                                         *)
(* The module holds these state machines, each over its own variables:     *)
(*   SpecStitch    StitchedRunner.run with PolicyEngineRunner.run and      *)
(*                 TaxsimRunner.run as its two engines                     *)
(*   SpecBuild     form_household_situation (single record) and            *)
(*                 _process_person_data_for_year (batch)                   *)
(*   SpecExtract   generate_non_description_output (single record) and     *)
(*                 _extract_vectorized_results (batch)                     *)
(*   SpecConvert   convert_taxsim32_dependents on one record               *)
(*   SpecRound     generate_household followed by export_household         *)
(*   SpecDataset   TaxsimMicrosimDataset.generate and the computation on   *)
(*                 the generated dataset                                   *)
(*   SpecRunner    BaseTaxRunner construction, sample and filters          *)
(*   SpecNormalize the per-record and the vectorized dependent conversion  *)
(*                 applied to the same table                               *)
(*   SpecCrowd     the builders on households with up to one dependent     *)
(*                 more than there are age columns                         *)
(*   SpecOverride  the extraction under catalogs with per-state overrides  *)
(*   SpecRun       generate followed by _extract_vectorized_results on     *)
(*                 the same batch                                          *)
(*   SpecFiles     the temporary files of PolicyEngineRunner.run and       *)
(*                 TaxsimRunner.run                                        *)
(*   SpecFips      convert_fips_to_taxsim_state on the state codes of an   *)
(*                 H5 extract                                              *)
(***************************************************************************)
EXTENDS Integers, Sequences, FiniteSets, TLC

VARIABLES
    \* ---- StitchedRunner ----
    input_df,        \* self.input_df: sequence of rows [taxsimid, year]
    pe_min_year,     \* self.pe_min_year
    pc,              \* position inside StitchedRunner.run
    pe_input,        \* self.input_df[pe_mask]
    taxsim_input,    \* self.input_df[taxsim_mask]
    pe_runs,         \* number of PolicyEngineRunner constructed and run
    taxsim_runs,     \* number of TaxsimRunner constructed and run
    pe_frame,        \* what PolicyEngineRunner.run returned (sequence of rows)
    frames,          \* frames: list of result frames
    result,          \* the returned frame, or <<>> when run raised
    \* ---- situation builder and batch constructor ----
    year_data,       \* the normalized records of one tax year, in input order
    bpc,             \* which builder has run: "input", "single", "batch"
    situations,      \* form_household_situation of every record
    person_data,     \* _process_person_data_for_year(year_data)
    dataset,         \* the arrays generate() stores for the year
    \* ---- output extraction ----
    mappings,        \* the policyengine_to_taxsim section of the catalog
    engine,          \* how the engine answers calculate(), per variable
    ext_rows,        \* the input rows of one tax year [taxsimid, year, state, idtl]
    epc,             \* "input", then how the vectorized extraction ended
    single_out,      \* export_household of the rows exported so far
    batch_out,       \* outcome of the vectorized extraction of the year
    disable_salt_variable,  \* output_mapper's module-level flag
    calculated,      \* <<field, variable>>: calculate() calls made so far
    \* ---- legacy dependent conversion of one record ----
    cv_in,           \* the record (dict) given to convert_taxsim32_dependents
    cv_once,         \* the record after one conversion
    cv_twice,        \* the record after a second conversion
    cvpc,            \* "input", "once", "twice"
    \* ---- batch normalization ----
    nz_df,           \* the input table: [columns, rows]
    nz_single,       \* every row converted on its own
    nz_batch,        \* the table after _apply_defaults_vectorized
    nzpc,            \* "input", "single", "batch"
    \* ---- runner construction ----
    rn_table,        \* the table a runner is constructed from
    rn_runner,       \* the runner's input_df (<<>> while there is none)
    rnpc,            \* "input", "constructed", "derived", "raised"
    \* ---- round trip of one record ----
    rt_input,        \* the record (dict) as the caller built it
    rt_vars,         \* the caller's dict object, updated in place
    rt_situation,    \* generate_household's situation
    rt_output,       \* export_household's output
    rtpc,            \* "input", "generated", "exported", "raised"
    \* ---- temporary files of the two engines' run ----
    tmp_files,       \* the temporary files that exist on disk
    tpc,             \* position inside the current run ("idle" between runs)
    tmp_runs,        \* number of runs started so far
    input_file,      \* TaxsimRunner.run's local input_file (<<>> is None)
    output_file,     \* TaxsimRunner.run's local output_file
    raising,         \* an exception is propagating through the finally block
    \* ---- state code conversion of an H5 extract ----
    state_codes,     \* compact state codes of the households written out
    taxsim_state,    \* the codes convert_fips_to_taxsim_state gives back
    fpc              \* "input", "converted"

stitchVars == <<input_df, pe_min_year, pc, pe_input, taxsim_input,
                pe_runs, taxsim_runs, pe_frame, frames, result>>
buildVars == <<year_data, bpc, situations, person_data, dataset>>
extractVars == <<mappings, engine, ext_rows, epc, single_out, batch_out,
                 disable_salt_variable, calculated>>
convertVars == <<cv_in, cv_once, cv_twice, cvpc>>
normVars == <<nz_df, nz_single, nz_batch, nzpc>>
runnerVars == <<rn_table, rn_runner, rnpc>>
roundVars == <<rt_input, rt_vars, rt_situation, rt_output, rtpc>>
fileVars == <<tmp_files, tpc, tmp_runs, input_file, output_file, raising>>
fipsVars == <<state_codes, taxsim_state, fpc>>
vars == <<stitchVars, buildVars, extractVars, convertVars, normVars,
          runnerVars, roundVars,
          fileVars, fipsVars>>

\* what each machine leaves alone
stitchRest == <<buildVars, extractVars, convertVars, normVars, runnerVars,
    roundVars, fileVars, fipsVars>>
buildRest == <<stitchVars, extractVars, convertVars, normVars, runnerVars,
    roundVars, fileVars, fipsVars>>
extractRest == <<stitchVars, buildVars, convertVars, normVars, runnerVars,
    roundVars, fileVars, fipsVars>>
convertRest == <<stitchVars, buildVars, extractVars, normVars, runnerVars,
    roundVars, fileVars, fipsVars>>
normRest == <<stitchVars, buildVars, extractVars, convertVars, runnerVars,
    roundVars, fileVars, fipsVars>>
runnerRest == <<stitchVars, buildVars, extractVars, convertVars, normVars,
    roundVars, fileVars, fipsVars>>
roundRest == <<stitchVars, buildVars, extractVars, convertVars, normVars,
    runnerVars, fileVars, fipsVars>>

\* the runner machine at rest (used by the other machines' Init)
StitchIdle ==
    /\ input_df = <<>> /\ pe_min_year = 0 /\ pc = "idle"
    /\ pe_input = <<>> /\ taxsim_input = <<>> /\ pe_runs = 0
    /\ taxsim_runs = 0 /\ pe_frame = <<>> /\ frames = <<>> /\ result = <<>>

\* the builder machine at rest
BuildIdle ==
    /\ year_data = <<>> /\ bpc = "idle" /\ situations = <<>>
    /\ person_data = <<>> /\ dataset = <<>>

\* the extraction machine at rest
ExtractIdle ==
    /\ mappings = <<>> /\ engine = <<>> /\ ext_rows = <<>> /\ epc = "idle"
    /\ single_out = <<>> /\ batch_out = <<>>
    /\ disable_salt_variable = FALSE /\ calculated = {}

\* the conversion machine at rest
ConvertIdle ==
    /\ cv_in = <<>> /\ cv_once = <<>> /\ cv_twice = <<>> /\ cvpc = "idle"

\* the normalization machine at rest
NormIdle ==
    /\ nz_df = <<>> /\ nz_single = <<>> /\ nz_batch = <<>> /\ nzpc = "idle"

\* the runner-construction machine at rest
RunnerIdle ==
    /\ rn_table = <<>> /\ rn_runner = <<>> /\ rnpc = "idle"

\* the round-trip machine at rest
RoundIdle ==
    /\ rt_input = <<>> /\ rt_vars = <<>> /\ rt_situation = <<>>
    /\ rt_output = <<>> /\ rtpc = "idle"

\* no run of either engine under way, no temporary file on disk
FileIdle ==
    /\ tmp_files = {} /\ tpc = "idle" /\ tmp_runs = 0
    /\ input_file = <<>> /\ output_file = <<>> /\ raising = FALSE

\* the state code conversion at rest
FipsIdle ==
    /\ state_codes = <<>> /\ taxsim_state = <<>> /\ fpc = "idle"

StitchRestIdle ==
    BuildIdle /\ ExtractIdle /\ ConvertIdle /\ NormIdle /\ RunnerIdle
      /\ RoundIdle /\ FileIdle /\ FipsIdle
BuildRestIdle ==
    StitchIdle /\ ExtractIdle /\ ConvertIdle /\ NormIdle /\ RunnerIdle
      /\ RoundIdle /\ FileIdle /\ FipsIdle
ExtractRestIdle ==
    StitchIdle /\ BuildIdle /\ ConvertIdle /\ NormIdle /\ RunnerIdle
      /\ RoundIdle /\ FileIdle /\ FipsIdle
ConvertRestIdle ==
    StitchIdle /\ BuildIdle /\ ExtractIdle /\ NormIdle /\ RunnerIdle
      /\ RoundIdle /\ FileIdle /\ FipsIdle
NormRestIdle ==
    StitchIdle /\ BuildIdle /\ ExtractIdle /\ ConvertIdle /\ RunnerIdle
      /\ RoundIdle /\ FileIdle /\ FipsIdle
RunnerRestIdle ==
    StitchIdle /\ BuildIdle /\ ExtractIdle /\ ConvertIdle /\ NormIdle
      /\ RoundIdle /\ FileIdle /\ FipsIdle
RoundRestIdle ==
    StitchIdle /\ BuildIdle /\ ExtractIdle /\ ConvertIdle /\ NormIdle
      /\ RunnerIdle /\ FileIdle /\ FipsIdle

----------------------------------------------------------------------------
(* Generic helpers over sequences                                          *)

Range(s) == { s[i] : i \in DOMAIN s }

RECURSIVE SumSeq(_)
SumSeq(s) == IF s = <<>> THEN 0 ELSE Head(s) + SumSeq(Tail(s))

RECURSIVE Concat(_)
Concat(ss) == IF ss = <<>> THEN <<>> ELSE Head(ss) \o Concat(Tail(ss))

\* all sequences over S of length 1..n
SeqsUpTo(S, n) == UNION { [1..k -> S] : k \in 1..n }

\* all orderings of the elements of s (as positions)
Perms(s) ==
    { [i \in DOMAIN s |-> s[p[i]]] :
        p \in { q \in [DOMAIN s -> DOMAIN s] :
                  \A i, j \in DOMAIN s : i # j => q[i] # q[j] } }

Ids(rows) == [i \in DOMAIN rows |-> rows[i].taxsimid]

\* Python's sorted() on a list of integers
sorted(s) == SortSeq(s, LAMBDA a, b : a < b)

----------------------------------------------------------------------------
(* Bounds and program constants of the runner model                        *)

MaxRows == 3          \* rows of an input table
YearSpan == 2         \* tax years run over PE_MIN_YEAR-1 .. PE_MIN_YEAR+YearSpan
PE_MIN_YEAR == 2021   \* StitchedRunner.PE_MIN_YEAR
CustomCutoff == 2023  \* a pe_min_year passed at construction (pe_min_year=2023)

Years == (PE_MIN_YEAR - 1) .. (PE_MIN_YEAR + YearSpan)

\* BaseTaxRunner.__init__ / _validate_input: a runner exists only over a
\* non-empty table whose taxsimid values are pairwise distinct
ValidInput(df) ==
    /\ Len(df) > 0
    /\ \A i, j \in DOMAIN df : i # j => df[i].taxsimid # df[j].taxsimid

InputTables ==
    { df \in SeqsUpTo([taxsimid : 1..MaxRows, year : Years], MaxRows) :
        ValidInput(df) }

----------------------------------------------------------------------------
(* PolicyEngineRunner.run: the order of the rows it returns                *)

\* years = sorted(set(input_df["year"].unique()))
SortedYears(df) ==
    LET ys == { df[i].year : i \in DOMAIN df }
    IN  sorted(CHOOSE s \in [1..Cardinality(ys) -> ys] : Range(s) = ys)

\* one frame per year, the year's rows in input order (input_df[year_mask])
YearFrame(df, y) == SelectSeq(df, LAMBDA r : r.year = y)

\* _extract_vectorized_results: pd.concat(year_frames, ignore_index=True)
ExtractVectorizedResults(df) ==
    LET ys == SortedYears(df)
    IN  Concat([k \in DOMAIN ys |-> YearFrame(df, ys[k])])

PolicyEngineRunnerRun(df) == ExtractVectorizedResults(df)

----------------------------------------------------------------------------
(* TaxsimRunner.run: an external executable; its output table may list the *)
(* rows in any order, and may miss or repeat a row                         *)

TaxsimOutputs(df) ==
    Perms(df) \cup { Tail(df) } \cup { df \o <<df[1]>> }
      \cup { df \o <<[taxsimid |-> MaxRows + 1, year |-> df[1].year]>> }

----------------------------------------------------------------------------
(* StitchedRunner.run                                                      *)

\* pe_mask = years >= self.pe_min_year
PeMaskWrong(year, cutoff) == year > cutoff
PeMask(year, cutoff) == year >= cutoff

\* result.set_index("taxsimid").loc[original_order].reset_index():
\* for every label of original_order in turn, the rows carrying that label
LocNoReorder(res, order) == res
Loc(res, order) ==
    Concat([k \in DOMAIN order |->
              SelectSeq(res, LAMBDA r : r.taxsimid = order[k])])

\* lines 69-70: sorted(result_ids) != sorted(original_order) compares the
\* two identifier lists as multisets
IdsMatchAsSets(result_ids, original_order) ==
    Range(result_ids) = Range(original_order)
IdsMatch(result_ids, original_order) ==
    sorted(result_ids) = sorted(original_order)

StitchInit ==
    /\ input_df \in InputTables
    /\ pe_min_year \in {PE_MIN_YEAR, CustomCutoff}
    /\ pc = "route"
    /\ pe_input = <<>>
    /\ taxsim_input = <<>>
    /\ pe_runs = 0
    /\ taxsim_runs = 0
    /\ pe_frame = <<>>
    /\ frames = <<>>
    /\ result = <<>>
    /\ StitchRestIdle

\* lines 32-34: the two masks
Route ==
    /\ pc = "route"
    /\ pe_input' = SelectSeq(input_df, LAMBDA r : PeMask(r.year, pe_min_year))
    /\ taxsim_input' =
          SelectSeq(input_df, LAMBDA r : ~PeMask(r.year, pe_min_year))
    /\ pc' = "pe"
    /\ UNCHANGED <<input_df, pe_min_year, pe_runs, taxsim_runs, pe_frame,
                   frames, result>>
    /\ UNCHANGED stitchRest

\* lines 53-57: if pe_mask.any(): construct and run PolicyEngineRunner
RunPolicyEngine ==
    /\ pc = "pe"
    /\ IF Len(pe_input) > 0
         THEN /\ pe_runs' = pe_runs + 1
              /\ pe_frame' = PolicyEngineRunnerRun(pe_input)
              /\ frames' = Append(frames, PolicyEngineRunnerRun(pe_input))
         ELSE UNCHANGED <<pe_runs, pe_frame, frames>>
    /\ pc' = "taxsim"
    /\ UNCHANGED <<input_df, pe_min_year, pe_input, taxsim_input,
                   taxsim_runs, result>>
    /\ UNCHANGED stitchRest

\* lines 59-61: if taxsim_mask.any(): construct and run TaxsimRunner
RunTaxsim ==
    /\ pc = "taxsim"
    /\ IF Len(taxsim_input) > 0
         THEN /\ taxsim_runs' = taxsim_runs + 1
              /\ \E out \in TaxsimOutputs(taxsim_input) :
                    frames' = Append(frames, out)
         ELSE UNCHANGED <<taxsim_runs, frames>>
    /\ pc' = "merge"
    /\ UNCHANGED <<input_df, pe_min_year, pe_input, taxsim_input, pe_runs,
                   pe_frame, result>>
    /\ UNCHANGED stitchRest

\* lines 63-77: concat, compare the identifier multisets, restore the order
Merge ==
    /\ pc = "merge"
    /\ IF frames = <<>>
         THEN /\ result' = <<>>
              /\ pc' = "returned"
         ELSE LET res == Concat(frames)
                  original_order == Ids(input_df)
              IN  IF ~IdsMatch(Ids(res), original_order)
                    THEN /\ result' = <<>>
                         /\ pc' = "raised"
                    ELSE /\ result' = Loc(res, original_order)
                         /\ pc' = "returned"
    /\ UNCHANGED <<input_df, pe_min_year, pe_input, taxsim_input, pe_runs,
                   taxsim_runs, pe_frame, frames>>
    /\ UNCHANGED stitchRest

StitchNext == Route \/ RunPolicyEngine \/ RunTaxsim \/ Merge

SpecStitch == StitchInit /\ [][StitchNext]_vars

----------------------------------------------------------------------------
(* Claims about the runners                                                *)

Returned == pc = "returned"
AfterPolicyEngine == pc \in {"taxsim", "merge", "returned", "raised"}
AfterTaxsim == pc \in {"merge", "returned", "raised"}

\* C2 (as claimed): PolicyEngineRunner.run returns its rows in the exact
\* input order: the output identifier column equals the input identifier
\* column position by position, also when the input interleaves tax years.
C2_PolicyEngineKeepsInputOrder ==
    (AfterPolicyEngine /\ pe_runs > 0) => Ids(pe_frame) = Ids(pe_input)

\* C3: whenever StitchedRunner.run returns a result, the result has exactly
\* one row per input record and its identifier column equals the input's
\* identifier column position by position, whatever order the engines
\* returned their rows in.
C3_StitchedOrderRestored ==
    Returned => /\ Len(result) = Len(input_df)
                /\ Ids(result) = Ids(input_df)

\* C3 witness: a returned run over mixed years in which both engines ran and
\* the concatenated engine output was not in input order.
C3_Witness ==
    /\ Returned
    /\ pe_runs > 0 /\ taxsim_runs > 0
    /\ Ids(Concat(frames)) # Ids(input_df)
    /\ Len(result) = MaxRows

\* C4: every input row is sent to exactly one engine, to PolicyEngineRunner
\* iff int(year) >= pe_min_year and to TaxsimRunner otherwise; an engine
\* that would receive no rows is never constructed or run (and the other
\* one is constructed and run exactly once).
C4_RoutingByYear ==
    /\ pc # "route" =>
         \A i \in DOMAIN input_df :
            LET r == input_df[i]
                inPe == Len(SelectSeq(pe_input, LAMBDA x : x = r))
                inTx == Len(SelectSeq(taxsim_input, LAMBDA x : x = r))
            IN  /\ inPe + inTx = 1
                /\ (inPe = 1) <=> (r.year >= pe_min_year)
    /\ pc # "route" => Len(pe_input) + Len(taxsim_input) = Len(input_df)
    /\ pe_runs = IF AfterPolicyEngine
                    /\ \E i \in DOMAIN input_df : input_df[i].year >= pe_min_year
                 THEN 1 ELSE 0
    /\ taxsim_runs = IF AfterTaxsim
                        /\ \E i \in DOMAIN input_df : input_df[i].year < pe_min_year
                     THEN 1 ELSE 0

\* C4 witness: a finished run in which a row of the cutoff year went to
\* PolicyEngine and a row of the year before it went to TAXSIM.
C4_Witness ==
    /\ Returned
    /\ \E i \in DOMAIN pe_input : pe_input[i].year = pe_min_year
    /\ \E i \in DOMAIN taxsim_input : taxsim_input[i].year = pe_min_year - 1

\* how often identifier x occurs in the identifier list ids
Occurrences(ids, x) == Cardinality({ k \in DOMAIN ids : ids[k] = x })

SameMultiset(a, b) ==
    \A x \in Range(a) \cup Range(b) : Occurrences(a, x) = Occurrences(b, x)

Finished == pc \in {"returned", "raised"}

\* C28: when the identifiers the engines returned are not the same multiset
\* as the input identifiers (a row missing, extra or repeated),
\* StitchedRunner.run raises and returns no result, neither a partial nor a
\* re-ordered one.
C28_MismatchedIdsRaise ==
    (Finished /\ ~SameMultiset(Ids(Concat(frames)), Ids(input_df)))
       => pc = "raised" /\ result = <<>>

\* C28 witness: both engines ran, the external engine repeated a row, and
\* the run raised
C28_Witness ==
    /\ pc = "raised"
    /\ pe_runs > 0 /\ taxsim_runs > 0
    /\ Len(Concat(frames)) = Len(input_df) + 1
    /\ Range(Ids(Concat(frames))) = Range(Ids(input_df))
    /\ result = <<>>

----------------------------------------------------------------------------
(* Flat records                                                            *)
(*                                                                         *)
(* A record is a function from column names to integers.  Money amounts    *)
(* inside situations and person arrays are kept in HALF units of the       *)
(* record's unit, so that Python's true division total_value / 2 is exact. *)

MaxDep == 2           \* dependents of a record (depx)
MaxBatch == 2         \* records of one tax year in a batch
AgeSlots == 11        \* age1 .. age11 (DEPENDENT_AGE_COLUMNS, range(1, 12))
DefaultAdultAge == 40 \* int(taxsim_vars.get("page") or 40)
DefaultDepAge == 10   \* dependents without an explicit age

Has(rec, col) == col \in DOMAIN rec
Get(rec, col, dflt) == IF Has(rec, col) THEN rec[col] ELSE dflt

\* f"age{i}", for every age slot
\* age1 .. age11 are the age columns; "age12" is the key the single-record
\* builder looks up for a twelfth dependent
AgeColTable == [i \in 1..(AgeSlots + 1) |-> "age" \o ToString(i)]
AgeCol(i) == AgeColTable[i]

\* float(x) / a stored amount x, in half units
Amount(x) == 2 * x

\* utils.get_ordinal
get_ordinal(n) ==
    CASE n = 1 -> "first"  [] n = 2 -> "second" [] n = 3 -> "third"
      [] n = 4 -> "fourth" [] n = 5 -> "fifth"  [] n = 6 -> "sixth"
      [] n = 7 -> "seventh" [] n = 8 -> "eighth" [] n = 9 -> "ninth"
      [] n = 10 -> "tenth" [] OTHER -> ToString(n) \o "th"

\* f"your {get_ordinal(i)} dependent"
DepNameTable ==
    [i \in 1..(AgeSlots + 1) |-> "your " \o get_ordinal(i) \o " dependent"]
DepName(i) == DepNameTable[i]
\* f"{dep_name}'s marital unit"
DepUnitNameTable ==
    [i \in 1..(AgeSlots + 1) |-> DepNameTable[i] \o "'s marital unit"]
DepUnitName(i) == DepUnitNameTable[i]

\* The income columns of a record: all zero, or pairwise distinct amounts
\* (odd ones among them, so that halving is visible)
IncomeProfiles ==
    { [pwages |-> 0, swages |-> 0, psemp |-> 0, ssemp |-> 0, pui |-> 0,
       sui |-> 0, intrec |-> 0, dividends |-> 0, ltcg |-> 0, stcg |-> 0,
       scorp |-> 0, pensions |-> 0, gssi |-> 0],
      [pwages |-> 50, swages |-> 30, psemp |-> 8, ssemp |-> 6, pui |-> 4,
       sui |-> 12, intrec |-> 3, dividends |-> 1, ltcg |-> 7, stcg |-> 2,
       scorp |-> 5, pensions |-> 9, gssi |-> 11] }

\* marital status values: 1 single, 2 joint, 6 separate
MStats == {1, 2, 6}

\* Dependent ages of a normalized record: every age column is present and
\* non-zero (0 and NaN were replaced by 10); the slots of actual dependents
\* hold either explicit, pairwise distinct ages or the default
DepAgeColumns(depx, explicit) ==
    [c \in { AgeCol(i) : i \in 1..AgeSlots } |->
        LET i == CHOOSE j \in 1..AgeSlots : AgeCol(j) = c
        IN  IF explicit /\ i <= depx THEN 3 + i ELSE DefaultDepAge]

NormalizedRecords ==
    { [mstat |-> m, depx |-> d, page |-> 35, sage |-> 33]
        @@ DepAgeColumns(d, e) @@ inc :
        m \in MStats, d \in 0..MaxDep, e \in BOOLEAN, inc \in IncomeProfiles }

----------------------------------------------------------------------------
(* The Mapping Catalog sections read by the two builders                   *)
(* (config/variable_mappings.yaml)                                         *)

\* taxsim_to_policyengine.household_situation.additional_income_units
additional_income_units ==
    << [field |-> "taxable_interest_income",        values |-> <<"intrec">>],
       [field |-> "qualified_dividend_income",      values |-> <<"dividends">>],
       [field |-> "long_term_capital_gains",        values |-> <<"ltcg">>],
       [field |-> "short_term_capital_gains",       values |-> <<"stcg">>],
       [field |-> "partnership_s_corp_income",      values |-> <<"scorp">>],
       [field |-> "taxable_private_pension_income", values |-> <<"pensions">>],
       [field |-> "social_security_retirement",     values |-> <<"gssi">>],
       [field |-> "self_employment_income",    values |-> <<"psemp", "ssemp">>],
       [field |-> "unemployment_compensation", values |-> <<"pui", "sui">>] >>

\* taxsim_input_definition: the "pair" of a primary column
paired_vars ==
    [c \in {"pwages", "psemp", "pui"} |->
        CASE c = "pwages" -> "swages" [] c = "psemp" -> "ssemp"
          [] c = "pui" -> "sui"]

\* household_situation template: one marital unit, no people
TemplateMaritalUnits == [u \in {"your marital unit"} |-> [members |-> <<>>]]

----------------------------------------------------------------------------
(* input_mapper.form_household_situation / add_additional_units            *)

income_types_to_split ==
    { "taxable_interest_income", "qualified_dividend_income",
      "long_term_capital_gains", "partnership_s_corp_income",
      "taxable_private_pension_income", "short_term_capital_gains",
      "social_security_retirement" }

\* lines 137-143: the membership list
MembersNoPartner(rec) == <<"you">> \o [i \in 1..rec.depx |-> DepName(i)]
Members(rec) ==
    (IF rec.mstat = 2 THEN <<"you", "your partner">> ELSE <<"you">>)
      \o [i \in 1..rec.depx |-> DepName(i)]

Couple(rec) == IF rec.mstat = 2 THEN <<"you", "your partner">> ELSE <<"you">>

\* lines 157-162: the dependents' marital units; a later i overwrites an
\* earlier one under the same key
DepUnitsZeroBased(rec) ==
    [u \in { DepUnitName(i) : i \in 1..rec.depx } |->
        LET i == CHOOSE j \in 1..rec.depx :
                   /\ DepUnitName(j) = u
                   /\ \A k \in 1..rec.depx : DepUnitName(k) = u => k <= j
        IN  [members |-> <<DepName(i)>>, marital_unit_id |-> i - 1]]
DepUnits(rec) ==
    [u \in { DepUnitName(i) : i \in 1..rec.depx } |->
        LET i == CHOOSE j \in 1..rec.depx :
                   /\ DepUnitName(j) = u
                   /\ \A k \in 1..rec.depx : DepUnitName(k) = u => k <= j
        IN  [members |-> <<DepName(i)>>, marital_unit_id |-> i]]

\* lines 151-166
MaritalUnits(rec) ==
    IF rec.depx > 0
      THEN DepUnits(rec) @@ [u \in {"your marital unit"} |->
                               [members |-> Couple(rec)]]
      ELSE [TemplateMaritalUnits EXCEPT
              !["your marital unit"].members = Couple(rec)]

\* lines 172-176
PrimaryAttrs(rec) ==
    [age |-> IF Get(rec, "page", 0) = 0 THEN DefaultAdultAge ELSE rec.page,
     employment_income |-> Amount(Get(rec, "pwages", 0)),
     is_tax_unit_head |-> TRUE]

\* lines 179-183
SpouseAttrs(rec) ==
    [age |-> IF Get(rec, "sage", 0) = 0 THEN DefaultAdultAge ELSE rec.sage,
     employment_income |-> Amount(Get(rec, "swages", 0)),
     is_tax_unit_spouse |-> TRUE]

\* lines 187-193
DependentAttrs(rec, i) ==
    [age |-> IF Has(rec, AgeCol(i)) THEN rec[AgeCol(i)] ELSE DefaultDepAge,
     employment_income |-> 0,
     is_tax_unit_dependent |-> TRUE,
     is_tax_unit_spouse |-> FALSE,
     is_tax_unit_head |-> FALSE]

\* lines 170-193: the people dictionary before the additional units
BasePeople(rec) ==
    LET names == {"you"} \cup (IF rec.mstat = 2 THEN {"your partner"} ELSE {})
                   \cup { DepName(i) : i \in 1..rec.depx }
    IN  [nm \in names |->
           IF \E i \in 1..rec.depx : DepName(i) = nm
             THEN DependentAttrs(rec,
                    CHOOSE j \in 1..rec.depx :
                      /\ DepName(j) = nm
                      /\ \A k \in 1..rec.depx : DepName(k) = nm => k <= j)
           ELSE IF nm = "your partner" THEN SpouseAttrs(rec)
           ELSE PrimaryAttrs(rec)]

\* people_unit[name][field] = {str(year): v}
SetAttr(people, name, field, v) ==
    [people EXCEPT ![name] = (field :> v) @@ @]

\* split_value = total_value / 2   (amounts are in half units)
SplitValueNotHalved(total_value) == total_value
SplitValue(total_value) == total_value \div 2

\* lines 98-107 and 113-122: split between the spouses, or all to "you"
AssignIncome(people, rec, field, total_value) ==
    IF /\ rec.mstat = 2
       /\ "your partner" \in DOMAIN people
       /\ field \in income_types_to_split
      THEN SetAttr(SetAttr(people, "you", field, SplitValue(total_value)),
                   "your partner", field, SplitValue(total_value))
      ELSE SetAttr(people, "you", field, total_value)

\* lines 68-122: one entry of additional_income_units
ApplyIncomeUnit(people, rec, item) ==
    LET field == item.field
        values == item.values
        present == SelectSeq(values, LAMBDA v : Has(rec, v))
        pair(p, s) ==
            LET one == IF Has(rec, p)
                         THEN SetAttr(people, "you", field, Amount(rec[p]))
                         ELSE people
            IN  IF "your partner" \in DOMAIN people /\ Has(rec, s)
                  THEN SetAttr(one, "your partner", field, Amount(rec[s]))
                  ELSE one
    IN  IF values = <<>> THEN people
        ELSE IF field = "self_employment_income" THEN pair("psemp", "ssemp")
        ELSE IF field = "unemployment_compensation" THEN pair("pui", "sui")
        ELSE IF Len(values) > 1
          THEN IF present # <<>>
                 THEN AssignIncome(people, rec, field,
                        SumSeq([k \in DOMAIN present |-> Amount(rec[present[k]])]))
                 ELSE people
        ELSE IF Has(rec, values[1])
          THEN AssignIncome(people, rec, field, Amount(rec[values[1]]))
        ELSE people

RECURSIVE AddIncomeUnits(_, _, _)
AddIncomeUnits(people, rec, items) ==
    IF items = <<>> THEN people
    ELSE AddIncomeUnits(ApplyIncomeUnit(people, rec, Head(items)), rec,
                        Tail(items))

\* lines 199-209: person-level programs forced to zero
PersonZeroOverrides ==
    [ssi |-> 0, head_start |-> 0, early_head_start |-> 0,
     commodity_supplemental_food_program |-> 0]

\* lines 211-229: assistance-unit programs forced to zero
SpmZeroOverrides ==
    [snap |-> 0, tanf |-> 0, free_school_meals |-> 0,
     reduced_price_school_meals |-> 0]

\* form_household_situation: the person- and membership-level part of the
\* situation (state_name and the tax-unit inputs of additional_tax_units
\* are passed through to the engine and are not part of this model)
form_household_situation(rec) ==
    LET withIncome == AddIncomeUnits(BasePeople(rec), rec,
                                     additional_income_units)
    IN  [families    |-> [members |-> Members(rec)],
         households  |-> [members |-> Members(rec)],
         tax_units   |-> [members |-> Members(rec)],
         spm_units   |-> [members |-> Members(rec)] @@ SpmZeroOverrides,
         marital_units |-> MaritalUnits(rec),
         people |-> [nm \in DOMAIN withIncome |->
                       PersonZeroOverrides @@ withIncome[nm]]]

----------------------------------------------------------------------------
(* policyengine_runner.TaxsimMicrosimDataset: the batch constructor        *)

\* a source of a variable mapping: a column name, a number, or a callable
\* summing several columns
ColSource(c) == [kind |-> "col", col |-> c]
NumSource(v) == [kind |-> "num", val |-> v]
SumSource(cs) == [kind |-> "sum", cols |-> cs]

\* _get_taxsim_to_pe_variable_mapping, lines 211-276: one catalog entry
IncomeUnitMapping(item) ==
    LET tv == item.values
        paired(c) == IF c \in DOMAIN paired_vars THEN paired_vars[c] ELSE ""
    IN  IF Len(tv) = 1
          THEN IF paired(tv[1]) # ""
                 THEN [primary |-> ColSource(tv[1]),
                       spouse |-> ColSource(paired(tv[1]))]
                 ELSE [primary |-> ColSource(tv[1]), spouse |-> NumSource(0)]
        ELSE IF Len(tv) = 2
          THEN IF tv[2] = paired(tv[1])
                 THEN [primary |-> ColSource(tv[1]), spouse |-> ColSource(tv[2])]
               ELSE IF tv[1] = paired(tv[2])
                 THEN [primary |-> ColSource(tv[2]), spouse |-> ColSource(tv[1])]
               ELSE [primary |-> SumSource(tv), spouse |-> NumSource(0)]
        ELSE [primary |-> ColSource(tv[1]), spouse |-> NumSource(0)]

\* _get_taxsim_to_pe_variable_mapping without "age": later entries of the
\* catalog overwrite earlier ones, employment_income is added last
VariableMapping ==
    LET items == SelectSeq(additional_income_units,
                           LAMBDA it : it.values # <<>>)
        fields == { items[k].field : k \in DOMAIN items }
    IN  [pe_var \in {"employment_income"} |->
            [primary |-> ColSource("pwages"), spouse |-> ColSource("swages")]]
        @@ [pe_var \in fields |->
              LET k == CHOOSE j \in DOMAIN items :
                         /\ items[j].field = pe_var
                         /\ \A m \in DOMAIN items :
                              items[m].field = pe_var => m <= j
              IN  IncomeUnitMapping(items[k])]

\* lines 381-394: the variables with a usable primary or spouse source
FilteredMapping(columns) ==
    LET usable(src) == \/ src.kind = "col" /\ src.col \in columns
                       \/ src.kind = "sum"
    IN  { v \in DOMAIN VariableMapping :
            usable(VariableMapping[v].primary)
              \/ usable(VariableMapping[v].spouse) }

\* has_spouse = np.isin(mstat, [2, 6])
has_spouse(row) == row.mstat \in {2, 6}

people_per_hh_no_spouse(row) == 1 + row.depx

\* people_per_hh = 1 + has_spouse.astype(int) + depx
people_per_hh(row) == 1 + (IF has_spouse(row) THEN 1 ELSE 0) + row.depx

\* household_ids = np.repeat(np.arange(n), people_per_hh) together with
\* position_in_hh: one entry per person, hh counted from 1 here
PersonRows(df) ==
    Concat([i \in DOMAIN df |->
              [p \in 1..people_per_hh(df[i]) |-> [hh |-> i, pos |-> p - 1]]])

is_primary(df, pr) == pr.pos = 0
is_spouse(df, pr) == pr.pos = 1 /\ has_spouse(df[pr.hh])
is_dependent(df, pr) == ~is_primary(df, pr) /\ ~is_spouse(df, pr)

\* lines 413-443: the age array
BatchAge(df, pr) ==
    LET row == df[pr.hh]
        primary_age == IF row.page > 0 THEN row.page ELSE DefaultAdultAge
        dep_num == pr.pos - (IF has_spouse(row) THEN 2 ELSE 1) + 1
    IN  IF is_primary(df, pr) THEN primary_age
        ELSE IF is_spouse(df, pr)
          THEN IF row.sage > 0 THEN row.sage ELSE primary_age
        ELSE IF dep_num \in 1..AgeSlots /\ Has(row, AgeCol(dep_num))
          THEN IF row[AgeCol(dep_num)] > 0 THEN row[AgeCol(dep_num)]
               ELSE DefaultDepAge
        ELSE 0

\* lines 450-475: the value a source gives a household (half units)
SourceValue(src, row) ==
    CASE src.kind = "col" -> IF Has(row, src.col) THEN Amount(row[src.col])
                             ELSE 0
      [] src.kind = "sum" ->
            SumSeq([k \in DOMAIN src.cols |-> Amount(Get(row, src.cols[k], 0))])
      [] OTHER -> Amount(src.val)

\* lines 445-482: a standard variable; dependents keep the initial 0
BatchValue(df, pr, pe_var) ==
    IF is_primary(df, pr)
      THEN SourceValue(VariableMapping[pe_var].primary, df[pr.hh])
    ELSE IF is_spouse(df, pr)
      THEN SourceValue(VariableMapping[pe_var].spouse, df[pr.hh])
    ELSE 0

\* _process_person_data_for_year: name |-> person-level array
process_person_data_for_year(df) ==
    LET prs == PersonRows(df)
        columns == UNION { DOMAIN df[i] : i \in DOMAIN df }
        hhIds == [k \in DOMAIN prs |-> prs[k].hh - 1]
        idArrays == {"person_household_id", "person_tax_unit_id",
                     "person_family_id", "person_spm_unit_id",
                     "person_marital_unit_id"}
    IN  [a \in idArrays |-> hhIds]
        @@ [a \in {"person_id"} |-> [k \in DOMAIN prs |-> k - 1]]
        @@ [a \in {"person_weight"} |-> [k \in DOMAIN prs |-> 1]]
        @@ [a \in {"is_tax_unit_head"} |->
              [k \in DOMAIN prs |-> is_primary(df, prs[k])]]
        @@ [a \in {"is_tax_unit_spouse"} |->
              [k \in DOMAIN prs |-> is_spouse(df, prs[k])]]
        @@ [a \in {"is_tax_unit_dependent"} |->
              [k \in DOMAIN prs |-> is_dependent(df, prs[k])]]
        @@ [a \in {"age"} |-> [k \in DOMAIN prs |-> BatchAge(df, prs[k])]]
        @@ [a \in FilteredMapping(columns) |->
              [k \in DOMAIN prs |-> BatchValue(df, prs[k], a)]]

----------------------------------------------------------------------------
(* The builder machine: both constructors applied to one year's records    *)

BuildInit ==
    /\ year_data \in SeqsUpTo(NormalizedRecords, MaxBatch)
    /\ bpc = "input"
    /\ situations = <<>>
    /\ person_data = <<>>
    /\ dataset = <<>>
    /\ BuildRestIdle

\* generate_household's last step, once per record
FormSituations ==
    /\ bpc = "input"
    /\ situations' = [i \in DOMAIN year_data |->
                        form_household_situation(year_data[i])]
    /\ bpc' = "single"
    /\ UNCHANGED <<year_data, person_data, dataset>>
    /\ UNCHANGED buildRest

\* TaxsimMicrosimDataset.generate's person-level step for the year
ProcessPersonData ==
    /\ bpc = "single"
    /\ person_data' = process_person_data_for_year(year_data)
    /\ bpc' = "batch"
    /\ UNCHANGED <<year_data, situations, dataset>>
    /\ UNCHANGED buildRest

BuildNext == FormSituations \/ ProcessPersonData

SpecBuild == BuildInit /\ [][BuildNext]_vars

----------------------------------------------------------------------------
(* Claims about the two builders                                           *)

\* the people of all situations, in input order and, inside a record, in
\* membership order
SinglePeople ==
    Concat([i \in DOMAIN situations |->
              [k \in DOMAIN situations[i].families.members |->
                 situations[i].people[situations[i].families.members[k]]]])

PersonLevelAttrs ==
    {"age", "is_tax_unit_head", "is_tax_unit_spouse", "is_tax_unit_dependent",
     "employment_income"}
      \cup { additional_income_units[k].field : k \in DOMAIN additional_income_units }

\* C1 (as claimed): for every batch of records of one tax year, each
\* person-level array of the batch constructor (age, head/spouse/dependent
\* flag, every person-level income variable) equals the concatenation, in
\* input order, of the values the single-record builder gives the same
\* records' people.
C1_BatchEqualsConcatenation ==
    bpc = "batch" =>
      \A a \in PersonLevelAttrs :
         /\ a \in DOMAIN person_data
         /\ Len(person_data[a]) = Len(SinglePeople)
         /\ \A k \in DOMAIN SinglePeople :
               a \in DOMAIN SinglePeople[k] =>
                  person_data[a][k] = SinglePeople[k][a]

BuiltSingle == bpc \in {"single", "batch"}

PersonCount(rec) == 1 + (IF rec.mstat = 2 THEN 1 ELSE 0) + rec.depx

\* C8: for every normalized record the single-record builder produces
\* exactly 1 + (1 if joint filer) + depx people, and each of family,
\* household, tax unit and assistance unit lists exactly those people.
C8_PersonCountAndMembership ==
    BuiltSingle =>
      \A i \in DOMAIN year_data :
         LET sit == situations[i]
             n == PersonCount(year_data[i])
         IN  /\ Cardinality(DOMAIN sit.people) = n
             /\ \A e \in {"families", "households", "tax_units", "spm_units"} :
                   /\ Len(sit[e].members) = n
                   /\ Range(sit[e].members) = DOMAIN sit.people

\* C8 witness: a built joint filer with MaxDep dependents
C8_Witness ==
    /\ BuiltSingle
    /\ \E i \in DOMAIN year_data :
          /\ year_data[i].mstat = 2 /\ year_data[i].depx = MaxDep
          /\ Cardinality(DOMAIN situations[i].people) = 2 + MaxDep

UnitsOf(sit, person) ==
    { u \in DOMAIN sit.marital_units :
        person \in Range(sit.marital_units[u].members) }

\* C9: every person belongs to exactly one marital unit; with no dependents
\* there is exactly one unit, holding the primary (and the spouse iff joint
\* filer); with depx >= 1 there are exactly 1 + depx units: the
\* primary/spouse unit and one singleton per dependent whose sequential
\* identifier is that dependent's 1-based position.
C9_MaritalUnits ==
    BuiltSingle =>
      \A i \in DOMAIN year_data :
         LET sit == situations[i]
             rec == year_data[i]
             mu == sit.marital_units
             couple == IF rec.mstat = 2 THEN <<"you", "your partner">>
                       ELSE <<"you">>
         IN  /\ \A p \in DOMAIN sit.people : Cardinality(UnitsOf(sit, p)) = 1
             /\ Cardinality(DOMAIN mu) = 1 + rec.depx
             /\ "your marital unit" \in DOMAIN mu
             /\ mu["your marital unit"].members = couple
             /\ \A d \in 1..rec.depx :
                   /\ DepUnitName(d) \in DOMAIN mu
                   /\ mu[DepUnitName(d)].members = <<DepName(d)>>
                   /\ mu[DepUnitName(d)].marital_unit_id = d

\* C9 witness: a built joint filer with two or more dependents' units
C9_Witness ==
    /\ BuiltSingle
    /\ \E i \in DOMAIN year_data :
          /\ year_data[i].mstat = 2 /\ year_data[i].depx >= 2
          /\ Cardinality(DOMAIN situations[i].marital_units) >= 3

\* the column a split-set category is read from
SplitSource(f) ==
    LET k == CHOOSE j \in DOMAIN additional_income_units :
               additional_income_units[j].field = f
    IN  additional_income_units[k].values[1]

\* C10: for a joint filer (spouse present) every split-set category gives
\* the primary and the spouse the same share and the two shares sum to the
\* reported amount; for every other filer the whole amount goes to the
\* primary (and to nobody else).
C10_IncomeSplit ==
    BuiltSingle =>
      \A i \in DOMAIN year_data : \A f \in income_types_to_split :
         LET ppl == situations[i].people
             rec == year_data[i]
             reported == Amount(rec[SplitSource(f)])
         IN  IF rec.mstat = 2
               THEN /\ ppl["you"][f] = ppl["your partner"][f]
                    /\ ppl["you"][f] + ppl["your partner"][f] = reported
               ELSE /\ ppl["you"][f] = reported
                    /\ \A nm \in DOMAIN ppl \ {"you"} : f \notin DOMAIN ppl[nm]

\* C10 witness: a built joint filer whose odd interest amount 3 was split
\* into two shares of 1.5 (3 half units each)
C10_Witness ==
    /\ BuiltSingle
    /\ \E i \in DOMAIN year_data :
          /\ year_data[i].mstat = 2 /\ year_data[i].intrec = 3
          /\ situations[i].people["you"]["taxable_interest_income"] = 3
          /\ situations[i].people["your partner"]["taxable_interest_income"] = 3

\* the person-rows the batch constructor made for record i of the year
BatchRowsOf(i) ==
    { k \in DOMAIN PersonRows(year_data) : PersonRows(year_data)[k].hh = i }

SingleHasSpouse(i) == "your partner" \in DOMAIN situations[i].people

BatchHasSpouse(i) ==
    \E k \in BatchRowsOf(i) : person_data["is_tax_unit_spouse"][k]

\* C21 (as claimed): both constructors create a spouse person for exactly
\* the same marital-status values: the record has a spouse if and only if
\* mstat = 2, in the single-record situation and in the batch arrays.
C21_SpouseIffJointInBothPaths ==
    bpc = "batch" =>
      \A i \in DOMAIN year_data :
         /\ SingleHasSpouse(i) <=> year_data[i].mstat = 2
         /\ BatchHasSpouse(i) <=> year_data[i].mstat = 2

\* the batch person-row of record i at position pos of its household
BatchRowAt(i, pos) ==
    CHOOSE k \in BatchRowsOf(i) : PersonRows(year_data)[k].pos = pos

\* C22 (as claimed): for a joint filer the batch constructor gives each
\* split-set income category half to the primary and half to the spouse,
\* the same amounts the single-record builder gives 'you' and 'your partner'.
C22_BatchSplitsLikeSingle ==
    bpc = "batch" =>
      \A i \in DOMAIN year_data : \A f \in income_types_to_split :
         year_data[i].mstat = 2 =>
            LET ppl == situations[i].people
                reported == Amount(year_data[i][SplitSource(f)])
                primary == person_data[f][BatchRowAt(i, 0)]
                spouse == person_data[f][BatchRowAt(i, 1)]
            IN  /\ primary = spouse
                /\ primary + spouse = reported
                /\ primary = ppl["you"][f]
                /\ spouse = ppl["your partner"][f]

\* the person-rows that share a marital unit with person-row k
SameMaritalUnit(k) ==
    { j \in DOMAIN person_data["person_marital_unit_id"] :
        person_data["person_marital_unit_id"][j]
          = person_data["person_marital_unit_id"][k] }

\* C23 (as claimed): in the batch arrays every dependent is the only member
\* of its marital unit (so that unit differs from every other dependent's
\* and from the primary/spouse unit), and a record's rows span as many
\* marital units as the single-record builder creates for it.
C23_DependentMaritalUnitsSingleton ==
    bpc = "batch" =>
      \A i \in DOMAIN year_data :
         /\ \A k \in BatchRowsOf(i) :
               person_data["is_tax_unit_dependent"][k]
                  => SameMaritalUnit(k) = {k}
         /\ Cardinality({ person_data["person_marital_unit_id"][k] :
                            k \in BatchRowsOf(i) })
              = Cardinality(DOMAIN situations[i].marital_units)

----------------------------------------------------------------------------
(* The builders on records with as many dependents as there are age        *)
(* columns, and with one more                                              *)

MaxCrowd == 1         \* records of the year in this machine

CrowdRecords ==
    { [mstat |-> m, depx |-> d, page |-> 35, sage |-> 33]
        @@ DepAgeColumns(d, e)
        @@ inc :
        m \in MStats, d \in {0, 1, AgeSlots, AgeSlots + 1}, e \in BOOLEAN,
        inc \in IncomeProfiles }

CrowdInit ==
    /\ year_data \in SeqsUpTo(CrowdRecords, MaxCrowd)
    /\ bpc = "input"
    /\ situations = <<>>
    /\ person_data = <<>>
    /\ dataset = <<>>
    /\ BuildRestIdle

SpecCrowd == CrowdInit /\ [][BuildNext]_vars

\* the batch person-row of dependent d of record i
DependentRow(i, d) ==
    BatchRowAt(i, d + (IF has_spouse(year_data[i]) THEN 1 ELSE 0))

\* C26 (as claimed): in the batch arrays every dependent has the age the
\* single-record builder gives it (10 when the record carries no explicit
\* age for it), whatever the dependent count; no dependent row has age 0.
C26_DependentAgeNeverZero ==
    bpc = "batch" =>
      \A i \in DOMAIN year_data : \A d \in 1..year_data[i].depx :
         /\ person_data["age"][DependentRow(i, d)] # 0
         /\ person_data["age"][DependentRow(i, d)]
              = situations[i].people[DepName(d)]["age"]

----------------------------------------------------------------------------
(* State Code Registry (core/utils.py)                                     *)

STATE_MAPPING ==
    << "AL", "AK", "AZ", "AR", "CA", "CO", "CT", "DE", "DC", "FL", "GA",
       "HI", "ID", "IL", "IN", "IA", "KS", "KY", "LA", "ME", "MD", "MA",
       "MI", "MN", "MS", "MO", "MT", "NE", "NV", "NH", "NJ", "NM", "NY",
       "NC", "ND", "OH", "OK", "OR", "PA", "RI", "SC", "SD", "TN", "TX",
       "UT", "VT", "VA", "WA", "WV", "WI", "WY" >>

get_state_code_always_default(state_number) == "TX"

\* STATE_MAPPING.get(state_number, "TX")
get_state_code(state_number) ==
    IF state_number \in DOMAIN STATE_MAPPING THEN STATE_MAPPING[state_number]
    ELSE "TX"

\* state_mapping_reverse.get(state_code, 0)
get_state_number(state_code) ==
    IF \E n \in DOMAIN STATE_MAPPING : STATE_MAPPING[n] = state_code
      THEN CHOOSE n \in DOMAIN STATE_MAPPING : STATE_MAPPING[n] = state_code
      ELSE 0

\* str.lower() on the state abbreviations the model uses
Lower(code) ==
    CASE code = "CA" -> "ca" [] code = "TX" -> "tx" [] code = "NY" -> "ny"
      [] OTHER -> code

----------------------------------------------------------------------------
(* The engine boundary                                                     *)
(*                                                                         *)
(* A variable name is kept as prefix \o base; a state-templated name has   *)
(* the prefix "state", which str.replace("state", st) turns into st.       *)
(* Computed values are in thousandths (mills), at tax-unit level.          *)

PeVar(prefix, base) == [prefix |-> prefix, base |-> base]
NoVar == PeVar("", "")
Name(v) == v.prefix \o v.base
\* "state" in pe_variable
HasStatePlaceholder(v) == v.prefix = "state"
\* pe_variable.replace("state", st)
ReplaceState(v, st) == IF HasStatePlaceholder(v) THEN st \o v.base ELSE Name(v)

EngineVarSeq ==
    << "income_tax", "adjusted_gross_income", "employee_social_security_tax",
       "employee_medicare_tax", "state_income_tax", "ca_income_tax",
       "tx_income_tax", "additional_medicare_tax" >>
EngineVars == Range(EngineVarSeq)

\* how calculate() answers for a variable:
\*   "value"          the variable is computed
\*   "unregistered"   the variable is absent from the variable registry
\*   "was not found"  the variable is registered, and computing it raises an
\*                    error about something else that was not found
\*   "error"          the variable is registered, and computing it raises
\*                    any other exception
Behaviours == {"value", "unregistered", "was not found", "error"}

MaxFaults == 1        \* variables of an engine that do not answer "value"

Engines ==
    { e \in [EngineVars -> Behaviours] :
        Cardinality({ v \in EngineVars : e[v] # "value" }) <= MaxFaults }

BehaviourOf(name) ==
    IF name \in DOMAIN engine THEN engine[name] ELSE "unregistered"

\* sim.tax_benefit_system.variables.get(name) is not None
Registered(name) == BehaviourOf(name) # "unregistered"

\* the computed value of a variable for a row's tax unit (mills, non-zero)
EngineValue(name, row) ==
    LET k == CHOOSE j \in DOMAIN EngineVarSeq : EngineVarSeq[j] = name
    IN  1000 * k + 335 * row.taxsimid

\* round(x, 2) / np.round(x, 2): to whole cents, ties to the even cent
Round2(mills) ==
    LET q == mills \div 10
        r == mills % 10
    IN  IF r < 5 THEN 10 * q
        ELSE IF r > 5 THEN 10 * (q + 1)
        ELSE IF q % 2 = 0 THEN 10 * q ELSE 10 * (q + 1)

\* utils.to_roundedup_number
to_roundedup_number(value) == Round2(value)

----------------------------------------------------------------------------
(* The policyengine_to_taxsim catalog (config/variable_mappings.yaml)      *)

Entry(key, implemented, variable, variables, idtl) ==
    [key |-> key, implemented |-> implemented, variable |-> variable,
     variables |-> variables, idtl |-> idtl,
     special_cases |-> <<>>]

AllLevels == <<0, 2, 5>>     \* standard, full, full_text
FullLevels == <<2, 5>>       \* full, full_text

\* the catalogs the extraction is run with: the applicability sets of one
\* single-variable entry and of the multi-variable entry vary
Catalogs ==
    { << Entry("taxsimid", TRUE, PeVar("", "taxsimid"), <<>>, AllLevels),
         Entry("year", TRUE, PeVar("", "get_year"), <<>>, AllLevels),
         Entry("state", TRUE, PeVar("", "get_state_code"), <<>>, AllLevels),
         Entry("fiitax", TRUE, PeVar("", "income_tax"), <<>>, lf),
         Entry("siitax", TRUE, PeVar("state", "_income_tax"), <<>>, AllLevels),
         Entry("fica", TRUE, NoVar,
               << PeVar("", "employee_social_security_tax"),
                  PeVar("", "employee_medicare_tax") >>, lm),
         Entry("v10", TRUE, PeVar("", "adjusted_gross_income"), <<>>,
               FullLevels),
         Entry("v11", FALSE, PeVar("", "na_pe"), <<>>, FullLevels),
         Entry("v12", TRUE, PeVar("", "na_pe"), <<>>, FullLevels) >> :
        lf \in {AllLevels, FullLevels}, lm \in {AllLevels, FullLevels} }

----------------------------------------------------------------------------
(* core/output_mapper.py: single-record extraction                         *)

\* simulate: every exception of calculate() is caught and replaced by 0.00
simulate(name, row) ==
    IF BehaviourOf(name) = "value"
      THEN to_roundedup_number(EngineValue(name, row))
      ELSE 0

\* simulate_multiple: the rounded values summed; any exception gives 0.00
simulate_multiple(variables, row) ==
    IF \A k \in DOMAIN variables : BehaviourOf(Name(variables[k])) = "value"
      THEN to_roundedup_number(
             SumSeq([k \in DOMAIN variables |->
                to_roundedup_number(EngineValue(Name(variables[k]), row))]))
      ELSE 0

\* lines 37-56: the per-state override of an entry, if one is implemented
SingleTarget(item, state_initial) ==
    LET found == SelectSeq(item.special_cases,
                           LAMBDA sc : sc.state = state_initial)
    IN  IF found # <<>> /\ found[1].implemented
          THEN ReplaceState(found[1].variable, state_initial)
          ELSE ReplaceState(item.variable, state_initial)

\* output_type in entry.values() for some entry of the idtl list
LevelDeclared(item, output_type) ==
    \E k \in DOMAIN item.idtl : item.idtl[k] = output_type

\* lines 17-60: taxsim_output after one catalog entry
ApplyEntry(out, item, row, state_name) ==
    IF ~item.implemented THEN out
    ELSE IF item.key = "taxsimid" THEN ("taxsimid" :> out["taxsimid"]) @@ out
    ELSE IF item.key = "year" THEN ("year" :> row.year) @@ out
    ELSE IF item.key = "state"
      THEN ("state" :> get_state_number(state_name)) @@ out
    ELSE IF Len(item.variables) > 0
      THEN (item.key :> simulate_multiple(item.variables, row)) @@ out
    ELSE IF LevelDeclared(item, row.idtl)
      THEN (item.key :> simulate(SingleTarget(item, Lower(state_name)), row))
           @@ out
    ELSE out

RECURSIVE ApplyEntries(_, _, _, _)
ApplyEntries(out, items, row, state_name) ==
    IF items = <<>> THEN out
    ELSE ApplyEntries(ApplyEntry(out, Head(items), row, state_name),
                      Tail(items), row, state_name)

\* generate_non_description_output: the catalog walked in order
generate_non_description_output(taxsim_output, row, state_name) ==
    ApplyEntries(taxsim_output, mappings, row, state_name)

\* export_household for idtl 0 or 2; no exception of the engine leaves it
export_household(row) ==
    [status |-> "returned",
     fields |-> generate_non_description_output(
                   [k \in {"taxsimid"} |-> row.taxsimid], row,
                   get_state_code(row.state))]

----------------------------------------------------------------------------
(* runners/policyengine_runner.py: vectorized extraction of one tax year   *)

\* a cell of a result column: a number, or NaN where the row's idtl does
\* not ask for the column
Cell(x) == [nan |-> FALSE, v |-> x]
NaN == [nan |-> TRUE, v |-> 0]

\* np.zeros(n)
Zeros(rows) == [i \in DOMAIN rows |-> 0]

\* np.char.lower(state_codes), per row
state_initial(row) == Lower(get_state_code(row.state))

\* np.unique(state_initials): the distinct initials in lexicographic order
LexInitials == <<"ca", "ny", "tx">>
unique_states(rows) ==
    SelectSeq(LexInitials,
              LAMBDA st : \E i \in DOMAIN rows : state_initial(rows[i]) = st)

year_restricted_variables == [ga_ctc |-> 2025, la_standard_deduction |-> 2025]

is_year_restricted_variable(variable_name, year) ==
    /\ variable_name \in DOMAIN year_restricted_variables
    /\ year < year_restricted_variables[variable_name]

\* _calc_tax_unit: exc is the raised exception's message ("" if none)
calc_tax_unit(var_name, rows) ==
    IF ~Registered(var_name)
      THEN [exc |-> "does not exist", arr |-> <<>>]
    ELSE IF BehaviourOf(var_name) # "value"
      THEN [exc |-> BehaviourOf(var_name), arr |-> <<>>]
    ELSE [exc |-> "",
          arr |-> [i \in DOMAIN rows |-> EngineValue(var_name, rows[i])]]

\* for var in variables_list: var_sum += _calc_tax_unit(var)
RECURSIVE SumCalc(_, _, _)
SumCalc(names, rows, var_sum) ==
    IF names = <<>> THEN [exc |-> "", arr |-> var_sum]
    ELSE LET r == calc_tax_unit(Head(names), rows)
         IN  IF r.exc # "" THEN r
             ELSE SumCalc(Tail(names), rows,
                          [i \in DOMAIN rows |-> var_sum[i] + r.arr[i]])

\* lines 1036-1052: the templates of one state summed; a template whose
\* variable does not exist is skipped, any other exception is re-raised
RECURSIVE PerStateSum(_, _, _, _, _)
PerStateSum(templates, st, rows, year, var_sum) ==
    IF templates = <<>> THEN [exc |-> "", arr |-> var_sum]
    ELSE LET resolved == ReplaceState(Head(templates), st)
             r == calc_tax_unit(resolved, rows)
         IN  IF is_year_restricted_variable(resolved, year)
                \/ r.exc = "does not exist"
               THEN PerStateSum(Tail(templates), st, rows, year, var_sum)
             ELSE IF r.exc # "" THEN r
             ELSE PerStateSum(Tail(templates), st, rows, year,
                              [i \in DOMAIN rows |-> var_sum[i] + r.arr[i]])

\* lines 1031-1070: the per-state fallback over the states of the year
RECURSIVE PerState(_, _, _, _, _)
PerState(mapping, sts, rows, year, result_array) ==
    IF sts = <<>> THEN [exc |-> "", arr |-> result_array]
    ELSE
      LET st == Head(sts)
          put(arr) == [i \in DOMAIN rows |->
                         IF state_initial(rows[i]) = st THEN arr[i]
                         ELSE result_array[i]]
          resolved == ReplaceState(mapping.variable, st)
          r == IF mapping.variables # <<>>
                 THEN PerStateSum(mapping.variables, st, rows, year, Zeros(rows))
                 ELSE calc_tax_unit(resolved, rows)
      IN  IF mapping.variables = <<>>
             /\ (is_year_restricted_variable(resolved, year)
                 \/ r.exc = "does not exist")
            THEN PerState(mapping, Tail(sts), rows, year, result_array)
          ELSE IF r.exc # "" THEN r
          ELSE PerState(mapping, Tail(sts), rows, year, put(r.arr))

\* lines 992-1085: the body of the try for one catalog entry
TryCompute(mapping, rows, year) ==
    LET pe_var == Name(mapping.variable)
        variables_list == mapping.variables
        names == [k \in DOMAIN variables_list |-> Name(variables_list[k])]
        has_state ==
            \/ HasStatePlaceholder(mapping.variable)
            \/ \E k \in DOMAIN variables_list :
                  HasStatePlaceholder(variables_list[k])
        unified_var ==
            pe_var # "" /\ variables_list = <<>> /\ Registered(pe_var)
        unified_vars_list ==
            variables_list # <<>> /\ \A k \in DOMAIN names : Registered(names[k])
    IN  IF has_state
          THEN IF unified_var THEN calc_tax_unit(pe_var, rows)
               ELSE IF unified_vars_list THEN SumCalc(names, rows, Zeros(rows))
               ELSE PerState(mapping, unique_states(rows), rows, year,
                             Zeros(rows))
        ELSE IF variables_list # <<>> THEN SumCalc(names, rows, Zeros(rows))
        ELSE calc_tax_unit(pe_var, rows)

\* the exception messages the handler of lines 1087-1098 answers with zeros
ZeroedMessages == {"does not exist", "was not found"}

\* lines 986-1098: the column of one entry, or the RuntimeError
ComputeColumn(mapping, rows, year) ==
    LET r == TryCompute(mapping, rows, year)
    IN  IF Name(mapping.variable) = "na_pe"
          THEN [outcome |-> "na_pe", arr |-> Zeros(rows)]
        ELSE IF r.exc = ""
          THEN [outcome |-> "computed",
                arr |-> [i \in DOMAIN rows |-> Round2(r.arr[i])]]
        ELSE IF r.exc \in ZeroedMessages
          THEN [outcome |-> "zeroed", arr |-> Zeros(rows)]
        ELSE [outcome |-> "raised", arr |-> <<>>]

\* idtl_values and unique_idtls of the year
UniqueIdtls(rows) == { rows[i].idtl : i \in DOMAIN rows }

needed_for_idtls(mapping, rows) == Range(mapping.idtl) \cap UniqueIdtls(rows)

\* lines 950-975: the entries computed for the year, in catalog order
vars_to_compute(rows) ==
    SelectSeq(mappings,
        LAMBDA m : /\ m.implemented
                   /\ m.key \notin {"taxsimid", "year", "state"}
                   /\ Name(m.variable) \notin
                         {"taxsimid", "get_year", "get_state_code"}
                   /\ needed_for_idtls(m, rows) # {})

\* lines 978-1098: the entries computed in order until one raises
RECURSIVE ComputeAll(_, _, _, _)
ComputeAll(todo, rows, year, acc) ==
    IF todo = <<>> THEN acc
    ELSE LET c == ComputeColumn(Head(todo), rows, year)
         IN  IF c.outcome = "raised"
               THEN [status |-> "raised", columns |-> <<>>, zeroed |-> {}]
             ELSE ComputeAll(Tail(todo), rows, year,
                    [status |-> "returned",
                     columns |-> (Head(todo).key :> c.arr) @@ acc.columns,
                     zeroed |-> IF c.outcome = "zeroed"
                                  THEN acc.zeroed \cup {Head(todo).key}
                                  ELSE acc.zeroed])

\* lines 1100-1109: fiitax from income_tax + additional_medicare_tax when
\* the catalog did not produce it; no handler surrounds these two calls
WithFiitax(acc, rows) ==
    IF acc.status = "raised" \/ "fiitax" \in DOMAIN acc.columns THEN acc
    ELSE LET a == calc_tax_unit("income_tax", rows)
             b == calc_tax_unit("additional_medicare_tax", rows)
         IN  IF a.exc # "" \/ b.exc # ""
               THEN [status |-> "raised", columns |-> <<>>, zeroed |-> {}]
             ELSE [acc EXCEPT !.columns =
                     ("fiitax" :> [i \in DOMAIN rows |->
                                     Round2(a.arr[i] + b.arr[i])]) @@ @]

\* lines 1111-1123: NaN where the row's idtl does not ask for the column
ApplyIdtlFilter(columns, rows) ==
    LET filtering == Cardinality(UniqueIdtls(rows)) > 1
                     \/ 0 \in UniqueIdtls(rows)
        computed(k) == \E j \in DOMAIN vars_to_compute(rows) :
                          vars_to_compute(rows)[j].key = k
        entry(k) == CHOOSE m \in Range(vars_to_compute(rows)) : m.key = k
    IN  [k \in DOMAIN columns |->
            [i \in DOMAIN rows |->
                IF filtering /\ computed(k)
                   /\ rows[i].idtl \notin needed_for_idtls(entry(k), rows)
                  THEN NaN
                  ELSE Cell(columns[k][i])]]

\* result_df.dropna(axis=1, how="all")
DropAllNaN(columns) ==
    LET kept == { k \in DOMAIN columns :
                    \E i \in DOMAIN columns[k] : ~columns[k][i].nan }
    IN  [k \in kept |-> columns[k]]

\* _extract_vectorized_results for the rows of one tax year
extract_vectorized_results(rows) ==
    LET year == rows[1].year
        base == [status |-> "returned",
                 columns |->
                    [k \in {"taxsimid", "year", "state"} |->
                       [i \in DOMAIN rows |->
                          CASE k = "taxsimid" -> rows[i].taxsimid
                            [] k = "year" -> year
                            [] OTHER -> get_state_number(
                                           get_state_code(rows[i].state))]],
                 zeroed |-> {}]
        acc == WithFiitax(ComputeAll(vars_to_compute(rows), rows, year, base),
                          rows)
    IN  IF acc.status = "raised" THEN acc
        ELSE [acc EXCEPT !.columns = DropAllNaN(ApplyIdtlFilter(@, rows))]

----------------------------------------------------------------------------
(* The calls of calculate() each extraction path makes for a catalog entry *)

\* the variables a loop over names passes to calculate() before it stops:
\* a loop that tolerates missing variables skips the year-restricted and
\* the unregistered ones; the first call that raises ends the loop
RECURSIVE Attempts(_, _, _)
Attempts(names, tolerant, year) ==
    IF names = <<>> THEN {}
    ELSE LET n == Head(names)
         IN  IF tolerant /\ is_year_restricted_variable(n, year)
               THEN Attempts(Tail(names), tolerant, year)
             ELSE IF ~Registered(n)
               THEN IF tolerant THEN Attempts(Tail(names), tolerant, year)
                    ELSE {}
             ELSE IF BehaviourOf(n) = "value"
               THEN {n} \cup Attempts(Tail(names), tolerant, year)
             ELSE {n}

\* simulate_multiple's generator: every name is passed to calculate() until
\* one call raises
SimulateMultipleCalls(variables) ==
    { Name(variables[k]) : k \in
        { j \in DOMAIN variables :
            \A h \in 1..(j - 1) : BehaviourOf(Name(variables[h])) = "value" } }

\* output_mapper.py lines 16-57: the calls made for one catalog entry
SingleEntryCalls(item, row, state_name) ==
    IF ~item.implemented \/ item.key \in {"taxsimid", "year", "state"}
      THEN {}
    ELSE IF Len(item.variables) > 0
      THEN { <<item.key, n>> : n \in SimulateMultipleCalls(item.variables) }
    ELSE IF LevelDeclared(item, row.idtl)
      THEN { <<item.key, SingleTarget(item, Lower(state_name))>> }
    ELSE {}

\* generate_non_description_output: the calls of a whole record
SingleCalls(row) ==
    UNION { SingleEntryCalls(mappings[j], row, get_state_code(row.state)) :
              j \in DOMAIN mappings }

\* policyengine_runner.py lines 992-1085: the calls made inside the try
TryCalls(mapping, rows, year) ==
    LET pe_var == Name(mapping.variable)
        variables_list == mapping.variables
        names == [k \in DOMAIN variables_list |-> Name(variables_list[k])]
        has_state ==
            \/ HasStatePlaceholder(mapping.variable)
            \/ \E k \in DOMAIN variables_list :
                  HasStatePlaceholder(variables_list[k])
        unified_var ==
            pe_var # "" /\ variables_list = <<>> /\ Registered(pe_var)
        unified_vars_list ==
            variables_list # <<>> /\ \A k \in DOMAIN names : Registered(names[k])
        sts == unique_states(rows)
        resolved ==
            IF variables_list # <<>>
              THEN Concat([s \in DOMAIN sts |->
                     [k \in DOMAIN variables_list |->
                        ReplaceState(variables_list[k], sts[s])]])
              ELSE [s \in DOMAIN sts |-> ReplaceState(mapping.variable, sts[s])]
    IN  IF has_state
          THEN IF unified_var THEN Attempts(<<pe_var>>, FALSE, year)
               ELSE IF unified_vars_list THEN Attempts(names, FALSE, year)
               ELSE Attempts(resolved, TRUE, year)
        ELSE IF variables_list # <<>> THEN Attempts(names, FALSE, year)
        ELSE Attempts(<<pe_var>>, FALSE, year)

\* lines 978-1098: the calls of the entries computed until one raises
RECURSIVE EntryCalls(_, _, _)
EntryCalls(todo, rows, year) ==
    IF todo = <<>> THEN {}
    ELSE LET m == Head(todo)
             made == IF Name(m.variable) = "na_pe" THEN {}
                     ELSE { <<m.key, n>> : n \in TryCalls(m, rows, year) }
         IN  IF ComputeColumn(m, rows, year).outcome = "raised" THEN made
             ELSE made \cup EntryCalls(Tail(todo), rows, year)

\* _extract_vectorized_results: the calls of the whole year, those of the
\* fiitax fallback of lines 1100-1109 included
BatchCalls(rows) ==
    LET year == rows[1].year
        todo == vars_to_compute(rows)
        acc == ComputeAll(todo, rows, year,
                          [status |-> "returned", columns |-> <<>>,
                           zeroed |-> {}])
    IN  EntryCalls(todo, rows, year)
          \cup IF acc.status = "raised" \/ "fiitax" \in DOMAIN acc.columns
                 THEN {}
                 ELSE { <<"fiitax", n>> : n \in
                          Attempts(<<"income_tax", "additional_medicare_tax">>,
                                   FALSE, year) }

----------------------------------------------------------------------------
(* The extraction machine: one year's rows through both extraction paths   *)

MaxExtractRows == 2   \* rows in the extracted year
ExtractStates == {5, 44}
ExtractIdtls == {0, 2}

ExtractBatches ==
    UNION { { [i \in 1..k |->
                 [taxsimid |-> i, year |-> PE_MIN_YEAR,
                  state |-> st[i], idtl |-> lv[i]]] :
              st \in [1..k -> ExtractStates], lv \in [1..k -> ExtractIdtls] } :
            k \in 1..MaxExtractRows }

ExtractInit ==
    /\ mappings \in Catalogs
    /\ engine \in Engines
    /\ ext_rows \in ExtractBatches
    /\ epc = "input"
    /\ single_out = <<>>
    /\ batch_out = <<>>
    /\ disable_salt_variable = FALSE
    /\ calculated = {}
    /\ ExtractRestIdle

\* the single-record path exports the next row; lines 261-262 store the
\* call's disable_salt argument in the module-level flag
ExportHousehold ==
    /\ epc = "input"
    /\ Len(single_out) < Len(ext_rows)
    /\ single_out' =
          Append(single_out, export_household(ext_rows[Len(single_out) + 1]))
    /\ \E disable_salt \in BOOLEAN : disable_salt_variable' = disable_salt
    /\ calculated' = calculated \cup SingleCalls(ext_rows[Len(single_out) + 1])
    /\ UNCHANGED <<mappings, engine, ext_rows, epc, batch_out>>
    /\ UNCHANGED extractRest

\* the batch path extracts the year
ExtractVectorized ==
    /\ epc = "input"
    /\ Len(single_out) = Len(ext_rows)
    /\ LET r == extract_vectorized_results(ext_rows)
       IN  /\ epc' = r.status
           /\ batch_out' = [columns |-> r.columns, zeroed |-> r.zeroed]
    /\ calculated' = calculated \cup BatchCalls(ext_rows)
    /\ UNCHANGED <<mappings, engine, ext_rows, single_out,
                   disable_salt_variable>>
    /\ UNCHANGED extractRest

ExtractNext == ExportHousehold \/ ExtractVectorized

SpecExtract == ExtractInit /\ [][ExtractNext]_vars


----------------------------------------------------------------------------
(* Extraction claims                                                       *)

SynthesizedKeys == {"taxsimid", "year", "state"}

\* the behaviour of the first variable of a list that does not answer with
\* a value ("value" if all do): the exception a left-to-right evaluation of
\* the list meets
RECURSIVE FirstFailure(_)
FirstFailure(names) ==
    IF names = <<>> THEN "value"
    ELSE IF BehaviourOf(Head(names)) # "value" THEN BehaviourOf(Head(names))
    ELSE FirstFailure(Tail(names))

\* the variables export_household asks the engine for on behalf of an entry
SingleTargets(m, row) ==
    IF ~m.implemented \/ m.key \in SynthesizedKeys THEN <<>>
    ELSE IF Len(m.variables) > 0
      THEN [k \in DOMAIN m.variables |-> Name(m.variables[k])]
    ELSE IF LevelDeclared(m, row.idtl)
      THEN << SingleTarget(m, state_initial(row)) >>
    ELSE <<>>

\* an engine exception that is not the absence of the variable from the
\* registry
NonRegistryFailure(b) == b \in {"was not found", "error"}

\* C5: in single-record extraction an engine exception raised for any reason
\* other than the target variable being absent from the variable registry
\* propagates and aborts the extraction of that record; it is never replaced
\* by a zero value.
C5_NonRegistryExceptionPropagates ==
    \A i \in DOMAIN single_out :
      \A j \in DOMAIN mappings :
        NonRegistryFailure(FirstFailure(SingleTargets(mappings[j], ext_rows[i])))
          => single_out[i].status = "raised"

\* the exception that reaches the handler of an entry in the batch path
HandlerException(m) == TryCompute(m, ext_rows, ext_rows[1].year).exc

BatchEntries ==
    { m \in Range(vars_to_compute(ext_rows)) : Name(m.variable) # "na_pe" }

\* C6: in batch extraction a field's column is set to all zeros, extraction
\* continuing with the remaining fields, exactly when the engine does not
\* implement the field's target variable; every other engine exception aborts
\* the batch and no result table is returned.
C6_ZeroExactlyWhenNotImplemented ==
    epc = "returned" =>
      \A m \in BatchEntries :
        /\ ~NonRegistryFailure(HandlerException(m))
        /\ m.key \in batch_out.zeroed <=> HandlerException(m) = "does not exist"

\* C7: in single-record extraction a catalog entry's output field is
\* produced only if the record's output-detail level appears in the entry's
\* declared applicability set, for entries with one target variable and for
\* entries that sum several target variables alike.
C7_OutputDetailGating ==
    \A i \in DOMAIN single_out :
      \A j \in DOMAIN mappings :
        (mappings[j].key \notin SynthesizedKeys
         /\ mappings[j].key \in DOMAIN single_out[i].fields)
          => LevelDeclared(mappings[j], ext_rows[i].idtl)

\* the catalog entries whose target is the not-computed sentinel
SentinelEntries ==
    { j \in DOMAIN mappings : Name(mappings[j].variable) = "na_pe" }

\* C25 (as claimed): an entry whose target is the not-computed sentinel is
\* resolved without any call of calculate() made for it, whichever path
\* extracts the record.
C25_SentinelNeverCalculated ==
    \A j \in SentinelEntries :
       \A c \in calculated : c[1] # mappings[j].key

----------------------------------------------------------------------------
(* utils.convert_taxsim32_dependents: legacy bracket counts to ages        *)
(*                                                                         *)
(* A record is a dict: a function from the keys present to their values.   *)
(* The values None and NaN are kept apart from every number.               *)

PyNone == -1          \* None
PyNaN == -2           \* float("nan")

Max(a, b) == IF a >= b THEN a ELSE b
Min(a, b) == IF a <= b THEN a ELSE b

\* for _ in range(n): one value per iteration (none when n <= 0)
Rep(v, n) == [i \in 1..n |-> v]

AgeColumns == { AgeCol(i) : i \in 1..AgeSlots }
AgeIndex(col) == CHOOSE i \in 1..AgeSlots : AgeCol(i) = col

\* int(taxsim_vars.get(key, 0) or 0)
IntOrZero(rec, key) ==
    IF Has(rec, key) /\ rec[key] # PyNone THEN rec[key] ELSE 0

has_taxsim32_fields(rec) ==
    Has(rec, "dep13") \/ Has(rec, "dep17") \/ Has(rec, "dep18")

has_individual_age_fields_never(rec) == FALSE
has_individual_age_fields(rec) ==
    \E i \in 1..AgeSlots : Has(rec, AgeCol(i)) /\ rec[AgeCol(i)] # PyNone

UnderThirteenAge == 10     \* age given to dependents under 13
ThirteenToSixteenAge == 15 \* age given to dependents aged 13 to 16
SeventeenAge == 17         \* age given to dependents aged 17
AdultDependentAge == 21    \* age given to dependents aged 18 or older

\* lines 147-182: the ages in the order the four loops produce them
BracketAgesYoungestLast(rec) ==
    LET dep13 == IntOrZero(rec, "dep13")
        dep17 == IntOrZero(rec, "dep17")
        dep18 == IntOrZero(rec, "dep18")
    IN  Rep(SeventeenAge, dep18 - dep17)
          \o Rep(ThirteenToSixteenAge, dep17 - dep13)
          \o Rep(UnderThirteenAge, dep13)
BracketAges(rec) ==
    LET dep13 == IntOrZero(rec, "dep13")
        dep17 == IntOrZero(rec, "dep17")
        dep18 == IntOrZero(rec, "dep18")
        depx == IntOrZero(rec, "depx")
        num_18_or_older == IF depx > dep18 THEN depx - dep18 ELSE 0
    IN  Rep(UnderThirteenAge, dep13)
          \o Rep(ThirteenToSixteenAge, dep17 - dep13)
          \o Rep(SeventeenAge, dep18 - dep17)
          \o Rep(AdultDependentAge, num_18_or_older)

\* if dep_counter <= 11: only the first eleven get an age field
AssignedAges(rec) ==
    SubSeq(BracketAges(rec), 1, Min(Len(BracketAges(rec)), AgeSlots))

\* lines 187-204: an age field holding NaN or 0 becomes 10
NormalizeAges(rec) ==
    [k \in DOMAIN rec |->
        IF k \in AgeColumns /\ rec[k] \in {PyNaN, 0} THEN DefaultDepAge
        ELSE rec[k]]

\* lines 147-182: depx raised to dep18 and the age fields written
DeriveAges(rec) ==
    LET assigned == AssignedAges(rec)
        written == { AgeCol(i) : i \in 1..Len(assigned) }
    IN  [k \in DOMAIN rec \cup {"depx"} \cup written |->
            IF k = "depx"
              THEN Max(IntOrZero(rec, "depx"), IntOrZero(rec, "dep18"))
            ELSE IF k \in written THEN assigned[AgeIndex(k)]
            ELSE rec[k]]

convert_taxsim32_dependents(rec) ==
    NormalizeAges(
      IF has_taxsim32_fields(rec) /\ ~has_individual_age_fields(rec)
        THEN DeriveAges(rec)
        ELSE rec)

----------------------------------------------------------------------------
(* The conversion machine: one record converted once and once more         *)

MaxCount == 3         \* largest ordinary bracket count of a record
MaxConvDep == 4       \* largest dependent count of a record

\* a count past the eleven age fields of the flat schema
BeyondSlots == AgeSlots + 1

Absent == -9          \* marks a key the record does not have

CountChoices == {Absent} \cup 0..MaxCount \cup {BeyondSlots}
DepxChoices == {Absent, PyNone} \cup 0..MaxConvDep
Age1Choices == {Absent, PyNone, PyNaN, 0, 5}
Age2Choices == {Absent, 12}

\* the dict with the chosen keys
RecordOf(choice) ==
    [k \in { c \in DOMAIN choice : choice[c] # Absent } |-> choice[k]]

ConvertInputs ==
    { RecordOf([dep13 |-> a, dep17 |-> b, dep18 |-> c, depx |-> d,
                age1 |-> x, age2 |-> y]) :
        a \in CountChoices, b \in CountChoices, c \in CountChoices,
        d \in DepxChoices, x \in Age1Choices, y \in Age2Choices }

ConvertInit ==
    /\ cv_in \in ConvertInputs
    /\ cv_once = <<>>
    /\ cv_twice = <<>>
    /\ cvpc = "input"
    /\ ConvertRestIdle

\* generate_household's call of the conversion
ConvertDependents ==
    /\ cvpc = "input"
    /\ cv_once' = convert_taxsim32_dependents(cv_in)
    /\ cvpc' = "once"
    /\ UNCHANGED <<cv_in, cv_twice>>
    /\ UNCHANGED convertRest

\* the conversion applied to its own result
ConvertAgain ==
    /\ cvpc = "once"
    /\ cv_twice' = convert_taxsim32_dependents(cv_once)
    /\ cvpc' = "twice"
    /\ UNCHANGED <<cv_in, cv_once>>
    /\ UNCHANGED convertRest

ConvertNext == ConvertDependents \/ ConvertAgain

SpecConvert == ConvertInit /\ [][ConvertNext]_vars

----------------------------------------------------------------------------
(* Claims about the legacy dependent-count conversion                      *)

\* the record carries bracket counts and no individual age
LegacyOnly(rec) == has_taxsim32_fields(rec) /\ ~has_individual_age_fields(rec)

\* sizes of the three under-18 brackets (a negative difference is empty)
NumUnder13(rec) == Max(IntOrZero(rec, "dep13"), 0)
Num13To16(rec) == Max(IntOrZero(rec, "dep17") - IntOrZero(rec, "dep13"), 0)
Num17(rec) == Max(IntOrZero(rec, "dep18") - IntOrZero(rec, "dep17"), 0)
NumUnder18(rec) == NumUnder13(rec) + Num13To16(rec) + Num17(rec)
NumExcess(rec) ==
    Max(IntOrZero(rec, "depx") - IntOrZero(rec, "dep18"), 0)

\* the age field of dependent p has value v
AgeIs(rec, p, v) == Has(rec, AgeCol(p)) /\ rec[AgeCol(p)] = v

\* C11: when the legacy bracket counts are present and no individual age is
\* set, the conversion assigns ages by position among the eleven age fields:
\* the first dep13 dependents get 10, the next dep17 - dep13 get 15 and the
\* next dep18 - dep17 get 17.
C11_BracketAgesByPosition ==
    (cvpc # "input" /\ LegacyOnly(cv_in)) =>
        \A p \in 1..AgeSlots :
            /\ p <= NumUnder13(cv_in) => AgeIs(cv_once, p, 10)
            /\ (NumUnder13(cv_in) < p
                  /\ p <= NumUnder13(cv_in) + Num13To16(cv_in))
                 => AgeIs(cv_once, p, 15)
            /\ (NumUnder13(cv_in) + Num13To16(cv_in) < p
                  /\ p <= NumUnder18(cv_in))
                 => AgeIs(cv_once, p, 17)

\* counts 1, 2, 3 have been converted to the ages 10, 15, 17
C11_Witness ==
    /\ cvpc = "once"
    /\ LegacyOnly(cv_in)
    /\ IntOrZero(cv_in, "dep13") = 1
    /\ IntOrZero(cv_in, "dep17") = 2
    /\ IntOrZero(cv_in, "dep18") = 3
    /\ AgeIs(cv_once, 1, 10) /\ AgeIs(cv_once, 2, 15) /\ AgeIs(cv_once, 3, 17)

\* C12: every dependent in excess of the under-18 count (the last
\* depx - dep18 of them) is assigned age 19.
C12_ExcessDependentsAge19 ==
    (cvpc # "input" /\ LegacyOnly(cv_in)) =>
        \A p \in 1..AgeSlots :
            (NumUnder18(cv_in) < p
               /\ p <= NumUnder18(cv_in) + NumExcess(cv_in))
              => AgeIs(cv_once, p, 19)

\* the normalization of lines 187-204 applied to a record whose ages are set
AgesKeptUpToNormalization(before, after) ==
    /\ DOMAIN after = DOMAIN before
    /\ \A k \in DOMAIN before :
          after[k] = IF k \in AgeColumns /\ before[k] \in {PyNaN, 0}
                       THEN DefaultDepAge ELSE before[k]

\* the record carries an age of its own in one of age1 .. age11
IndividualAgePresent(rec) ==
    \E c \in AgeColumns : Has(rec, c) /\ rec[c] # PyNone

\* C13: converting twice gives the same record (ages and dependent count)
\* as converting once; and when an individual age is present the conversion
\* derives no age from the bracket counts: no age field is added, the
\* dependent count is untouched and every existing age stays as it is, apart
\* from the normalization of a zero or not-a-number age to 10.
C13_ConversionIdempotent ==
    /\ cvpc = "twice" => cv_twice = cv_once
    /\ (cvpc # "input" /\ IndividualAgePresent(cv_in))
         => AgesKeptUpToNormalization(cv_in, cv_once)

\* a record with bracket counts and an age of its own, converted twice
C13_Witness ==
    /\ cvpc = "twice"
    /\ has_taxsim32_fields(cv_in)
    /\ IntOrZero(cv_in, "dep13") = 2
    /\ AgeIs(cv_in, 1, 5)
    /\ AgeIs(cv_once, 1, 5)
    /\ ~Has(cv_once, AgeCol(3))
    /\ cv_twice = cv_once

----------------------------------------------------------------------------
(* generate_household followed by export_household on one record          *)

DefaultTaxYear == 2021     \* taxsim_vars.get("year", 2021)
DefaultState == 44         \* Texas

\* set_taxsim_defaults' DEFAULTS table
DEFAULTS(year) ==
    [state |-> DefaultState, depx |-> 0, mstat |-> 1, taxsimid |-> 0,
     idtl |-> 0, year |-> year, page |-> DefaultAdultAge,
     sage |-> DefaultAdultAge]

\* taxsim_vars[key] = int(taxsim_vars.get(key, default) or default)
set_taxsim_defaults(rec, year) ==
    [k \in DOMAIN rec \cup DOMAIN DEFAULTS(year) |->
        IF k \in DOMAIN DEFAULTS(year)
          THEN IF Has(rec, k) /\ rec[k] \notin {PyNone, 0} THEN rec[k]
               ELSE DEFAULTS(year)[k]
          ELSE rec[k]]

\* generate_household: the dict after the two in-place updates, and the
\* situation's period, state name and household members
generate_household(rec) ==
    LET year == Get(rec, "year", DefaultTaxYear)
        tv == set_taxsim_defaults(convert_taxsim32_dependents(rec), year)
        state == get_state_code(tv["state"])
    IN  [taxsim_vars |-> tv,
         situation |-> [year |-> year, state_name |-> state,
                        members |-> Members(tv)]]

\* export_household for idtl 0 or 2: year and state name are read from the
\* situation, identifier and idtl from the caller's dict
export_situation(input_vars, situation) ==
    LET row == [taxsimid |-> input_vars["taxsimid"],
                year |-> situation.year,
                state |-> get_state_number(situation.state_name),
                idtl |-> input_vars["idtl"]]
    IN  generate_non_description_output(
            [k \in {"taxsimid"} |-> input_vars["taxsimid"]], row,
            situation.state_name)

UnknownState == Len(STATE_MAPPING) + 1   \* a code outside the registry

RoundInputs ==
    { RecordOf([taxsimid |-> t, year |-> y, state |-> s, mstat |-> m,
                depx |-> d, idtl |-> l]) :
        t \in {Absent, 0, 7},
        y \in {Absent, PE_MIN_YEAR, PE_MIN_YEAR + YearSpan},
        s \in {Absent, 0, 5, DefaultState, UnknownState},
        m \in {Absent, 1, 2},
        d \in {Absent} \cup 0..MaxDep,
        l \in {Absent, 0, 2} }

\* the engine stubbed to answer every variable with its fixed value
StubEngine == [v \in EngineVars |-> "value"]

RoundInit ==
    /\ rt_input \in RoundInputs
    /\ rt_vars = rt_input
    /\ rt_situation = <<>>
    /\ rt_output = <<>>
    /\ rtpc = "input"
    /\ mappings \in Catalogs
    /\ engine = StubEngine
    /\ ext_rows = <<>> /\ epc = "idle" /\ single_out = <<>>
    /\ batch_out = <<>> /\ disable_salt_variable = FALSE
    /\ calculated = {}
    /\ StitchIdle /\ BuildIdle /\ ConvertIdle /\ NormIdle /\ RunnerIdle
    /\ FileIdle /\ FipsIdle

\* pe_situation = generate_household(taxsim_input)
GenerateHousehold ==
    /\ rtpc = "input"
    /\ rt_vars' = generate_household(rt_vars).taxsim_vars
    /\ rt_situation' = generate_household(rt_vars).situation
    /\ rtpc' = "generated"
    /\ UNCHANGED <<rt_input, rt_output>>
    /\ UNCHANGED roundRest

\* export_household(taxsim_input, pe_situation, False, disable_salt)
ExportSituation ==
    /\ rtpc = "generated"
    /\ rt_output' = export_situation(rt_vars, rt_situation)
    /\ rtpc' = "exported"
    /\ \E disable_salt \in BOOLEAN :
          /\ disable_salt_variable' = disable_salt
          /\ UNCHANGED <<mappings, engine, ext_rows, epc, single_out,
                         batch_out, calculated>>
    /\ UNCHANGED <<rt_input, rt_vars, rt_situation>>
    /\ UNCHANGED <<stitchVars, buildVars, convertVars, normVars, runnerVars,
                   fileVars, fipsVars>>

RoundNext == GenerateHousehold \/ ExportSituation

SpecRound == RoundInit /\ [][RoundNext]_vars

\* the record is a single filer without dependents
SingleNoDependents(rec) ==
    /\ Get(rec, "mstat", 1) = 1
    /\ Get(rec, "depx", 0) = 0

\* the output repeats every one of the three fields the record carries
ReproducesInput(rec, out) ==
    \A k \in {"taxsimid", "year", "state"} :
        Has(rec, k) => Has(out, k) /\ out[k] = rec[k]

\* C14 (as stated): for every record with zero dependents and single filing
\* status, generate_household followed by export_household returns an output
\* whose identifier, year and state code equal the input record's.
C14_RoundTripEveryRecord ==
    (rtpc = "exported" /\ SingleNoDependents(rt_input))
        => ReproducesInput(rt_input, rt_output)

\* C14 (amended): the identifier and the year of such a record are always
\* reproduced; the state code is reproduced when it is one of the registry's
\* codes 1..51, and is reported as the default state's code otherwise.
C14_RoundTripRecognizedState ==
    (rtpc = "exported" /\ SingleNoDependents(rt_input)) =>
        /\ \A k \in {"taxsimid", "year"} :
              Has(rt_input, k) => rt_output[k] = rt_input[k]
        /\ rt_output["state"] =
              IF Has(rt_input, "state")
                   /\ rt_input["state"] \in DOMAIN STATE_MAPPING
                THEN rt_input["state"]
                ELSE DefaultState

\* a single filer of state 5, year 2023, exported with the same three fields
C14_Witness ==
    /\ rtpc = "exported"
    /\ SingleNoDependents(rt_input)
    /\ Has(rt_input, "state") /\ rt_input["state"] = 5
    /\ Has(rt_input, "year") /\ rt_input["year"] = PE_MIN_YEAR + YearSpan
    /\ Has(rt_input, "taxsimid") /\ rt_input["taxsimid"] = 7
    /\ Len(rt_situation.members) = 1
    /\ ReproducesInput(rt_input, rt_output)

----------------------------------------------------------------------------
(* TaxsimMicrosimDataset: defaulting and normalization of the input table  *)
(*                                                                         *)
(* A table is a non-empty sequence of rows over the same columns; a cell   *)
(* is a number, NaN, or a text that is not a number.                       *)

NotNumeric == -3      \* a text such as "abc": float() raises on it

Columns(df) == DOMAIN df[1]

\* TaxsimRunner's column lists
REQUIRED_COLUMNS ==
    {"taxsimid", "year", "state", "mstat", "page", "sage", "depx"}
DEPENDENT_AGE_COLUMNS == AgeColumns
TAXSIM32_COLUMNS == {"dep13", "dep17", "dep18"}
INCOME_COLUMNS ==
    {"pwages", "swages", "psemp", "ssemp", "dividends", "intrec", "stcg",
     "ltcg", "otherprop", "nonprop", "pensions", "gssi", "pui", "sui",
     "transfers", "rentpaid", "proptax", "otheritem", "childcare",
     "mortgage", "scorp", "idtl"}
ALL_COLUMNS ==
    REQUIRED_COLUMNS \cup DEPENDENT_AGE_COLUMNS \cup TAXSIM32_COLUMNS
      \cup INCOME_COLUMNS

get_taxsim_defaults(year) ==
    [taxsimid |-> 0, year |-> year, state |-> DefaultState, mstat |-> 1,
     depx |-> 0, idtl |-> 0, page |-> DefaultAdultAge,
     sage |-> DefaultAdultAge]

\* _ensure_required_columns: every missing column of ALL_COLUMNS is added
\* with its default, or 0 when it has none
ensure_required_columns(df) ==
    [i \in DOMAIN df |->
        [c \in Columns(df) \cup ALL_COLUMNS |->
            IF c \in Columns(df) THEN df[i][c]
            ELSE Get(get_taxsim_defaults(DefaultTaxYear), c, 0)]]

\* the defaults table of _apply_defaults_vectorized
VectorizedDefaults ==
    [state |-> DefaultState, depx |-> 0, mstat |-> 1, taxsimid |-> 0,
     idtl |-> 0, page |-> DefaultAdultAge, sage |-> DefaultAdultAge]

\* lines 527-538: NaN and 0 are replaced by the default, a missing column is
\* created with it; a missing or NaN year becomes 2021
FillDefaults(df) ==
    [i \in DOMAIN df |->
        [c \in Columns(df) \cup DOMAIN VectorizedDefaults \cup {"year"} |->
            IF c \in DOMAIN VectorizedDefaults
              THEN IF c \in Columns(df) /\ df[i][c] \notin {PyNaN, 0}
                     THEN df[i][c] ELSE VectorizedDefaults[c]
            ELSE IF c = "year"
              THEN IF c \in Columns(df) /\ df[i][c] # PyNaN
                     THEN df[i][c] ELSE DefaultTaxYear
            ELSE df[i][c]]]

has_taxsim32(df) == TAXSIM32_COLUMNS \cap Columns(df) # {}

\* any(f"age{i}" in df.columns and df[f"age{i}"].notna().any() ...)
has_individual_ages(df) ==
    \E c \in AgeColumns \cap Columns(df) :
        \E i \in DOMAIN df : df[i][c] # PyNaN

\* df.get(col, pd.Series(0)).fillna(0).astype(int)
VecCount(row, col) ==
    IF Has(row, col) /\ row[col] # PyNaN THEN row[col] ELSE 0

\* lines 556-581: the ages the bracket loops give one row, slot by slot
VecBracketAges(row) ==
    LET dep13 == VecCount(row, "dep13")
        dep17 == VecCount(row, "dep17")
        dep18 == VecCount(row, "dep18")
        depx == row["depx"]
    IN  Rep(UnderThirteenAge, dep13)
          \o Rep(ThirteenToSixteenAge, dep17 - dep13)
          \o Rep(SeventeenAge, dep18 - dep17)
          \o Rep(AdultDependentAge, Max(depx - dep18, 0))

\* age_cols[col] for one row: the slot's age, 0 where no bracket reached it
VecSlotAge(row, slot) ==
    IF slot <= Len(VecBracketAges(row)) THEN VecBracketAges(row)[slot] ELSE 0

\* lines 549-586: depx raised to dep18; when some bracket loop ran, every age
\* column exists afterwards and a cell that was 0 (or had no column) takes
\* the slot's age, while a NaN cell stays NaN
ConvertVectorized(df) ==
    LET ran == \E i \in DOMAIN df : VecBracketAges(df[i]) # <<>>
        cols == IF ran THEN Columns(df) \cup AgeColumns ELSE Columns(df)
    IN  [i \in DOMAIN df |->
            [c \in cols |->
                IF c = "depx"
                  THEN Max(df[i]["depx"], VecCount(df[i], "dep18"))
                ELSE IF ran /\ c \in AgeColumns
                  THEN IF c \notin Columns(df) \/ df[i][c] = 0
                         THEN VecSlotAge(df[i], AgeIndex(c))
                         ELSE df[i][c]
                ELSE df[i][c]]]

\* lines 588-594: NaN or 0 in an age column becomes 10
NormalizeAgeColumns(df) == [i \in DOMAIN df |-> NormalizeAges(df[i])]

apply_defaults_vectorized(df) ==
    LET filled == FillDefaults(df)
    IN  NormalizeAgeColumns(
          IF has_taxsim32(filled) /\ ~has_individual_ages(filled)
            THEN ConvertVectorized(filled)
            ELSE filled)

\* generate, lines 602-607: the table the dataset is built from
NormalizedInput(df) == apply_defaults_vectorized(ensure_required_columns(df))

----------------------------------------------------------------------------
(* TaxsimMicrosimDataset.generate: the dataset of a whole batch            *)

\* taxsim_to_policyengine.household_situation.additional_tax_units
additional_tax_units ==
    << [field |-> "tax_unit_childcare_expenses", values |-> <<"childcare">>] >>

\* _get_tax_unit_variable_mapping: the first column of every entry
tax_unit_mapping ==
    [f \in { additional_tax_units[k].field : k \in DOMAIN additional_tax_units } |->
        LET k == CHOOSE j \in DOMAIN additional_tax_units :
                   /\ additional_tax_units[j].field = f
                   /\ \A m \in DOMAIN additional_tax_units :
                        additional_tax_units[m].field = f => m <= j
        IN  additional_tax_units[k].values[1]]

SOI_TO_FIPS_MAP ==
    << 1, 2, 4, 5, 6, 8, 9, 10, 11, 12, 13, 15, 16, 17, 18, 19, 20, 21, 22,
       23, 24, 25, 26, 27, 28, 29, 30, 31, 32, 33, 34, 35, 36, 37, 38, 39,
       40, 41, 42, 44, 45, 46, 47, 48, 49, 50, 51, 53, 54, 55, 56 >>

DefaultFips == 6      \* SOI_TO_FIPS_MAP.get(..., 6)

\* SOI_TO_FIPS_MAP.get(int(float(s)), 6)
state_fips(s) ==
    IF s \in DOMAIN SOI_TO_FIPS_MAP THEN SOI_TO_FIPS_MAP[s] ELSE DefaultFips

\* _initialize_dataset_structure's fixed sets of variables
entity_variables ==
    {"person_id", "person_household_id", "person_tax_unit_id",
     "person_family_id", "person_spm_unit_id", "person_marital_unit_id",
     "person_weight", "age", "household_id", "household_weight",
     "state_fips", "tax_unit_id", "tax_unit_weight", "family_id",
     "family_weight", "spm_unit_id", "spm_unit_weight", "marital_unit_id",
     "marital_unit_weight"}
essential_person_variables ==
    {"employment_income", "charitable_cash_donations", "is_tax_unit_head",
     "is_tax_unit_spouse", "is_tax_unit_dependent"}
problematic_variables ==
    {"co_child_care_subsidies", "il_use_tax", "pa_use_tax", "ca_use_tax",
     "nc_use_tax", "ok_use_tax", "id_grocery_credit_qualified_months",
     "ak_energy_relief", "ak_permanent_fund_dividend", "ssi", "wic", "snap",
     "tanf", "free_school_meals", "reduced_price_school_meals", "head_start",
     "early_head_start", "commodity_supplemental_food_program"}

\* _extract_policyengine_variables_from_mappings (the input side of the
\* catalog; the output side only adds variables that stay empty)
pe_variables ==
    DOMAIN VariableMapping
      \cup { f \in DOMAIN tax_unit_mapping : f # "state_use_tax" }

all_variables ==
    pe_variables \cup entity_variables \cup essential_person_variables
      \cup problematic_variables

\* year_data.fillna(0)
FillNa(rows) ==
    [i \in DOMAIN rows |->
        [c \in DOMAIN rows[i] |->
            IF rows[i][c] = PyNaN THEN 0 ELSE rows[i][c]]]

\* the columns a source reads
SourceColumns(src, columns) ==
    CASE src.kind = "col" -> {src.col} \cap columns
      [] src.kind = "sum" -> Range(src.cols) \cap columns
      [] OTHER -> {}

\* the columns of the year's table that are converted with astype(float) or
\* float(): the sources of the person-level mapping (lines 445-472) and of
\* the tax-unit mapping (line 336)
CoercedColumns(columns) ==
    UNION { SourceColumns(VariableMapping[v].primary, columns)
              \cup SourceColumns(VariableMapping[v].spouse, columns) :
            v \in FilteredMapping(columns) }
      \cup ({ tax_unit_mapping[f] : f \in DOMAIN tax_unit_mapping }
              \cap columns)

\* astype(float) succeeds on every converted column
CoercibleAlways(rows) == TRUE
Coercible(rows) ==
    \A i \in DOMAIN rows :
        \A c \in CoercedColumns(DOMAIN rows[i]) : rows[i][c] # NotNumeric

\* _process_tax_unit_data_for_year
process_tax_unit_data_for_year(rows) ==
    [f \in { g \in DOMAIN tax_unit_mapping :
               tax_unit_mapping[g] \in Columns(rows) } |->
        [i \in DOMAIN rows |-> Amount(rows[i][tax_unit_mapping[f]])]]

FullOnes(n, v) == [k \in 1..n |-> 1]

\* np.zeros(n), np.ones(n), np.full(n, v), np.arange(n)
Full(n, v) == [k \in 1..n |-> v]
Arange(n) == [k \in 1..n |-> k - 1]

QualifiedMonths == 12  \* id_grocery_credit_qualified_months

\* lines 621-741: the arrays of one tax year, by variable name
YearArrays(raw_rows) ==
    LET rows == FillNa(raw_rows)
        n_year_records == Len(rows)
        person_data_of_year == process_person_data_for_year(rows)
        total_people_for_year == Len(person_data_of_year["person_id"])
        perRecordZero == {"co_child_care_subsidies", "il_use_tax",
                          "pa_use_tax", "ca_use_tax", "nc_use_tax",
                          "ok_use_tax", "snap", "tanf", "free_school_meals",
                          "reduced_price_school_meals"}
        perPersonZero == IF total_people_for_year > 0
                           THEN {"ak_energy_relief",
                                 "ak_permanent_fund_dividend", "ssi", "wic",
                                 "head_start", "early_head_start",
                                 "commodity_supplemental_food_program"}
                           ELSE {}
        months == IF total_people_for_year > 0
                    THEN {"id_grocery_credit_qualified_months"} ELSE {}
        ids == {"household_id", "tax_unit_id", "family_id", "spm_unit_id",
                "marital_unit_id"}
        weights == {"household_weight", "tax_unit_weight", "family_weight",
                    "spm_unit_weight", "marital_unit_weight"}
    IN  [v \in ids |-> Arange(n_year_records)]
        @@ [v \in weights |-> Full(n_year_records, 1)]
        @@ [v \in {"state_fips"} |->
              [i \in DOMAIN rows |-> state_fips(rows[i]["state"])]]
        @@ [v \in perRecordZero |-> Full(n_year_records, 0)]
        @@ [v \in perPersonZero |-> Full(total_people_for_year, 0)]
        @@ [v \in months |-> Full(total_people_for_year, QualifiedMonths)]
        @@ process_tax_unit_data_for_year(rows)
        @@ person_data_of_year

\* the rows of one tax year, in table order
YearRows(df, year) == SelectSeq(df, LAMBDA row : row["year"] = year)
UniqueYears(df) == { df[i]["year"] : i \in DOMAIN df }

\* data[var_name][year_int] = values, for every variable of the structure
ByVariable(arrays) ==
    [v \in all_variables |->
        [y \in { z \in DOMAIN arrays : v \in DOMAIN arrays[z] } |->
            arrays[y][v]]]

\* generate: either astype(float) raises on some year's table and nothing
\* is saved, or data[var][year] holds the year's array of the variable
GenerateFrom(df) ==
    IF \E y \in UniqueYears(df) : ~Coercible(FillNa(YearRows(df, y)))
      THEN [status |-> "raised", data |-> <<>>]
      ELSE [status |-> "generated",
            data |-> ByVariable([y \in UniqueYears(df) |->
                                   YearArrays(YearRows(df, y))])]

generate(input_df_of_dataset) ==
    GenerateFrom(NormalizedInput(input_df_of_dataset))

----------------------------------------------------------------------------
(* The dataset machine: PolicyEngineRunner.run up to the engine            *)

MaxDatasetRows == 2   \* largest input table of the dataset machine

DatasetRowChoices ==
    { [year |-> y, mstat |-> m, depx |-> d, pwages |-> 50] :
        y \in {PE_MIN_YEAR, PE_MIN_YEAR + 1}, m \in MStats,
        d \in {0, MaxDep} }

\* input tables with pairwise distinct identifiers; at most one row holds
\* wages that are not a number
DatasetTables ==
    UNION { { [i \in 1..k |->
                 [taxsimid |-> i] @@
                 [ch[i] EXCEPT !.pwages = IF i = bad THEN NotNumeric ELSE @]] :
              ch \in [1..k -> DatasetRowChoices], bad \in 0..k } :
            k \in 1..MaxDatasetRows }

DatasetInit ==
    /\ year_data \in DatasetTables
    /\ bpc = "input"
    /\ situations = <<>>
    /\ person_data = <<>>
    /\ dataset = <<>>
    /\ BuildRestIdle

\* run, lines 811-822: dataset.generate() inside the try block; an exception
\* leaves run before the Microsimulation is created
GenerateDataset ==
    /\ bpc = "input"
    /\ LET r == generate(year_data)
       IN  /\ dataset' = r.data
           /\ bpc' = r.status
    /\ UNCHANGED <<year_data, situations, person_data>>
    /\ UNCHANGED buildRest

\* run, lines 825-850: the engine computes on the generated dataset
ComputeOnDataset ==
    /\ bpc = "generated"
    /\ bpc' = "computed"
    /\ UNCHANGED <<year_data, situations, person_data, dataset>>
    /\ UNCHANGED buildRest

DatasetNext == GenerateDataset \/ ComputeOnDataset

SpecDataset == DatasetInit /\ [][DatasetNext]_vars

----------------------------------------------------------------------------
(* Claims about the batch dataset                                          *)

\* a dataset has been generated
Generated == bpc \in {"generated", "computed"}

\* the tax years of the input table, and the input rows of one year
YearsProcessed == { year_data[i]["year"] : i \in DOMAIN year_data }
InputRowsOf(y) == SelectSeq(year_data, LAMBDA row : row["year"] = y)

\* the sum over the year's records of 1 + spouse + depx
PeopleOfRows(rows) ==
    SumSeq([i \in DOMAIN rows |->
              1 + (IF rows[i]["mstat"] \in {2, 6} THEN 1 ELSE 0)
                + rows[i]["depx"]])

\* the array of a variable for a year is there
HasArray(v, y) == v \in DOMAIN dataset /\ y \in DOMAIN dataset[v]

AllZero(arr) == \A k \in DOMAIN arr : arr[k] = 0

\* C15: every benefit program the single-record builder sets to zero is in
\* the batch dataset for every tax year processed, as an all-zero array with
\* one entry per person (ssi, head_start, early_head_start,
\* commodity_supplemental_food_program) or per assistance unit (snap, tanf,
\* free_school_meals, reduced_price_school_meals) of that year.
C15_ZeroedProgramsInDataset ==
    Generated =>
        \A y \in YearsProcessed :
            /\ \A v \in DOMAIN PersonZeroOverrides :
                  /\ HasArray(v, y)
                  /\ AllZero(dataset[v][y])
                  /\ Len(dataset[v][y]) = Len(dataset["person_id"][y])
            /\ \A v \in DOMAIN SpmZeroOverrides :
                  /\ HasArray(v, y)
                  /\ AllZero(dataset[v][y])
                  /\ Len(dataset[v][y]) = Len(dataset["spm_unit_id"][y])

\* a two-year dataset whose first year has several people and units
C15_Witness ==
    /\ Generated
    /\ Cardinality(YearsProcessed) = 2
    /\ HasArray("ssi", PE_MIN_YEAR)
    /\ Len(dataset["ssi"][PE_MIN_YEAR]) >= 2
    /\ AllZero(dataset["ssi"][PE_MIN_YEAR])
    /\ HasArray("snap", PE_MIN_YEAR + 1)
    /\ dataset["snap"][PE_MIN_YEAR + 1] = <<0>>

\* the variables of the dataset with one entry per person
PersonLevelVariables ==
    {"person_id", "person_household_id", "person_tax_unit_id",
     "person_family_id", "person_spm_unit_id", "person_marital_unit_id",
     "person_weight", "age", "is_tax_unit_head", "is_tax_unit_spouse",
     "is_tax_unit_dependent", "ak_energy_relief",
     "ak_permanent_fund_dividend", "id_grocery_credit_qualified_months",
     "ssi", "wic", "head_start", "early_head_start",
     "commodity_supplemental_food_program"}
      \cup DOMAIN VariableMapping

\* a person's membership array and the identifier array it points into
MembershipArrays ==
    [person_household_id |-> "household_id",
     person_tax_unit_id |-> "tax_unit_id",
     person_family_id |-> "family_id",
     person_spm_unit_id |-> "spm_unit_id",
     person_marital_unit_id |-> "marital_unit_id"]

\* C16: for every tax year of a batch all person-level arrays have the same
\* length, the sum over the year's records of 1 + spouse + depx; every
\* household-, tax-unit-, family-, assistance-unit- and marital-unit-level
\* array has as many entries as the year has input records; and every
\* person's membership index is the identifier of a record of that year.
C16_ArrayLengthsConsistent ==
    Generated =>
        \A y \in YearsProcessed :
            /\ \A v \in DOMAIN dataset :
                  y \in DOMAIN dataset[v] =>
                      Len(dataset[v][y]) =
                          IF v \in PersonLevelVariables
                            THEN PeopleOfRows(InputRowsOf(y))
                            ELSE Len(InputRowsOf(y))
            /\ \A m \in DOMAIN MembershipArrays :
                  /\ HasArray(m, y) /\ HasArray(MembershipArrays[m], y)
                  /\ \A k \in DOMAIN dataset[m][y] :
                        dataset[m][y][k]
                          \in Range(dataset[MembershipArrays[m]][y])

\* a year with two records, one of them a joint filer with dependents
C16_Witness ==
    /\ Generated
    /\ Len(InputRowsOf(PE_MIN_YEAR)) = 2
    /\ \E i \in DOMAIN year_data :
          /\ year_data[i]["year"] = PE_MIN_YEAR
          /\ year_data[i]["mstat"] = 2
          /\ year_data[i]["depx"] = MaxDep
    /\ Len(dataset["age"][PE_MIN_YEAR]) >= 3 + MaxDep
    /\ Len(dataset["household_id"][PE_MIN_YEAR]) = 2

\* some record's wages cannot be coerced to a number
HasUncoercibleIncome ==
    \E i \in DOMAIN year_data : year_data[i]["pwages"] = NotNumeric

\* C19: a batch with a record whose mapped income field cannot be coerced to
\* a number fails during batch construction by raising: no dataset is
\* produced, the engine never computes, and the value is not replaced by 0.
C19_UncoercibleIncomeRaises ==
    (HasUncoercibleIncome /\ bpc # "input")
        => bpc = "raised" /\ dataset = <<>>

\* a two-record batch whose second record has text for wages has raised
C19_Witness ==
    /\ bpc = "raised"
    /\ Len(year_data) = 2
    /\ year_data[1]["pwages"] = 50
    /\ year_data[2]["pwages"] = NotNumeric
    /\ dataset = <<>>

----------------------------------------------------------------------------
(* runners/base_runner.py: construction and derivation of runners          *)
(*                                                                         *)
(* A table of this machine is [columns, rows]: the empty table             *)
(* pd.DataFrame() has neither.                                             *)

MaxRunnerRows == 2    \* largest table a runner is constructed from

RunnerYears == {PE_MIN_YEAR, PE_MIN_YEAR + 1}
RunnerStates == {5, DefaultState}

RunnerColumnSets ==
    { {"taxsimid", "year", "state"}, {"year", "state"}, {"taxsimid"} }

RunnerRowsOver(columns) ==
    { [c \in columns |->
         CASE c = "taxsimid" -> t [] c = "year" -> y [] OTHER -> st] :
        t \in 1..MaxRunnerRows, y \in RunnerYears, st \in RunnerStates }

RunnerTables ==
    { [columns |-> {}, rows |-> <<>>] }
      \cup UNION { { [columns |-> cs, rows |-> rs] :
                     rs \in SeqsUpTo(RunnerRowsOver(cs), MaxRunnerRows) } :
                   cs \in RunnerColumnSets }

\* self.input_df['taxsimid'].duplicated().any()
HasDuplicateIds(table) ==
    \E i, j \in DOMAIN table.rows :
        i # j /\ table.rows[i]["taxsimid"] = table.rows[j]["taxsimid"]

\* __init__ and _validate_input: the exception raised, or "" for none
ValidationErrorNoDuplicateCheck(table) ==
    IF Len(table.rows) = 0 THEN "input_df cannot be empty"
    ELSE IF "taxsimid" \notin table.columns
      THEN "Input data must contain 'taxsimid' column"
    ELSE ""
ValidationError(table) ==
    IF Len(table.rows) = 0 THEN "input_df cannot be empty"
    ELSE IF "taxsimid" \notin table.columns
      THEN "Input data must contain 'taxsimid' column"
    ELSE IF HasDuplicateIds(table)
      THEN "Input data contains duplicate taxsimid values"
    ELSE ""

\* self.__class__(table): the new runner, or the exception
NewRunner(table) ==
    IF ValidationError(table) = ""
      THEN [status |-> "ok", runner |-> [input_df |-> table]]
      ELSE [status |-> "raised", runner |-> <<>>]

\* input_df.sample(n): n rows drawn without replacement, in any order
Samples(table, n) ==
    { [columns |-> table.columns,
       rows |-> [k \in 1..n |-> table.rows[pick[k]]]] :
        pick \in { f \in [1..n -> DOMAIN table.rows] :
                     \A a, b \in 1..n : a # b => f[a] # f[b] } }

\* self.input_df[self.input_df[col] == value]
FilterRows(table, col, value) ==
    [columns |-> table.columns,
     rows |-> SelectSeq(table.rows, LAMBDA row : row[col] = value)]

RunnerInit ==
    /\ rn_table \in RunnerTables
    /\ rn_runner = <<>>
    /\ rnpc = "input"
    /\ RunnerRestIdle

\* BaseTaxRunner.__init__
Construct ==
    /\ rnpc = "input"
    /\ rn_runner' = NewRunner(rn_table).runner
    /\ rnpc' = IF NewRunner(rn_table).status = "ok" THEN "constructed"
               ELSE "raised"
    /\ UNCHANGED rn_table
    /\ UNCHANGED runnerRest

\* the runner a derivation returns replaces the one held; a derivation
\* that raises returns none
Derive(outcome) ==
    /\ rn_runner' = outcome.runner
    /\ rnpc' = IF outcome.status = "ok" THEN "derived" ELSE "raised"
    /\ UNCHANGED rn_table
    /\ UNCHANGED runnerRest

\* BaseTaxRunner.sample
Sample ==
    /\ rnpc \in {"constructed", "derived"}
    /\ \E n \in 0..(MaxRunnerRows + 1) :
          IF n <= 0
            THEN Derive([status |-> "raised", runner |-> <<>>])
          ELSE IF n >= Len(rn_runner.input_df.rows)
            THEN Derive(NewRunner(rn_runner.input_df))
          ELSE \E sampled_df \in Samples(rn_runner.input_df, n) :
                  Derive(NewRunner(sampled_df))

\* BaseTaxRunner.filter_by_year
FilterByYear ==
    /\ rnpc \in {"constructed", "derived"}
    /\ \E year \in RunnerYears :
          IF "year" \notin rn_runner.input_df.columns
            THEN Derive([status |-> "raised", runner |-> <<>>])
          ELSE IF FilterRows(rn_runner.input_df, "year", year).rows = <<>>
            THEN Derive([status |-> "raised", runner |-> <<>>])
          ELSE Derive(NewRunner(FilterRows(rn_runner.input_df, "year", year)))

\* BaseTaxRunner.filter_by_state
FilterByState ==
    /\ rnpc \in {"constructed", "derived"}
    /\ \E state \in RunnerStates :
          IF "state" \notin rn_runner.input_df.columns
            THEN Derive([status |-> "raised", runner |-> <<>>])
          ELSE IF FilterRows(rn_runner.input_df, "state", state).rows = <<>>
            THEN Derive([status |-> "raised", runner |-> <<>>])
          ELSE Derive(NewRunner(FilterRows(rn_runner.input_df, "state", state)))

RunnerNext == Construct \/ Sample \/ FilterByYear \/ FilterByState

SpecRunner == RunnerInit /\ [][RunnerNext]_vars

\* the identifiers of a table's rows are pairwise distinct
DistinctIds(rows) ==
    \A i, j \in DOMAIN rows : i # j => rows[i]["taxsimid"] # rows[j]["taxsimid"]

----------------------------------------------------------------------------
(* Module-level state across calls                                         *)

\* C18: no shared mutable state crosses record or batch boundaries: after
\* any sequence of build and extract calls the Mapping Catalog holds exactly
\* its loaded contents and no other module-level state has been written
\* (output_mapper's module-level flag still has the value it was loaded
\* with).
C18_NoModuleStateWritten ==
    epc # "idle" =>
        /\ mappings \in Catalogs
        /\ disable_salt_variable = FALSE

----------------------------------------------------------------------------
(* The normalization machine: a batch of legacy records converted record   *)
(* by record and by the batch path                                         *)

MaxNormRows == 2      \* largest table of the normalization machine

\* cumulative bracket counts dep13, dep17, dep18 of a record
NormCounts == { <<0, 0, 0>>, <<1, 2, 3>>, <<1, 2, 2>> }

\* the columns a table has besides the three bracket counts: a dependent
\* count or none, and no age column or all eleven of them holding NaN
NormRowsOver(withDepx, withAges) ==
    { [c \in TAXSIM32_COLUMNS \cup (IF withDepx THEN {"depx"} ELSE {})
               \cup (IF withAges THEN AgeColumns ELSE {}) |->
         CASE c = "dep13" -> n[1]
           [] c = "dep17" -> n[2]
           [] c = "dep18" -> n[3]
           [] c = "depx" -> d
           [] OTHER -> PyNaN] :
        n \in NormCounts, d \in {0, MaxConvDep} }

NormTables ==
    UNION { SeqsUpTo(NormRowsOver(withDepx, withAges), MaxNormRows) \ {<<>>} :
            withDepx \in BOOLEAN, withAges \in BOOLEAN }

NormInit ==
    /\ nz_df \in NormTables
    /\ nz_single = <<>>
    /\ nz_batch = <<>>
    /\ nzpc = "input"
    /\ NormRestIdle

\* every record on its own: convert_taxsim32_dependents(row.to_dict())
ConvertEachRecord ==
    /\ nzpc = "input"
    /\ nz_single' = [i \in DOMAIN nz_df |->
                       convert_taxsim32_dependents(nz_df[i])]
    /\ nzpc' = "single"
    /\ UNCHANGED <<nz_df, nz_batch>>
    /\ UNCHANGED normRest

\* the batch path: generate's _ensure_required_columns and
\* _apply_defaults_vectorized on the whole table
NormalizeBatch ==
    /\ nzpc = "single"
    /\ nz_batch' = NormalizedInput(nz_df)
    /\ nzpc' = "batch"
    /\ UNCHANGED <<nz_df, nz_single>>
    /\ UNCHANGED normRest

NormNext == ConvertEachRecord \/ NormalizeBatch

SpecNormalize == NormInit /\ [][NormNext]_vars

\* the dependent count and the age of dependent p after the single-record
\* conversion (a dependent without an age field gets the builder's default)
SingleDepx(rec) == IntOrZero(rec, "depx")
SingleDepAge(rec, p) == Get(rec, AgeCol(p), DefaultDepAge)

\* C20: for a batch whose records carry legacy bracket counts and no
\* individual dependent ages, the batch path derives for each record the
\* same dependent count and the same per-dependent ages as the single-record
\* conversion of that record alone.
C20_BatchConversionMatchesSingle ==
    nzpc = "batch" =>
        \A i \in DOMAIN nz_df :
            /\ nz_batch[i]["depx"] = SingleDepx(nz_single[i])
            /\ \A p \in 1..Min(SingleDepx(nz_single[i]), AgeSlots) :
                  nz_batch[i][AgeCol(p)] = SingleDepAge(nz_single[i], p)

----------------------------------------------------------------------------
(* Extraction with a per-state override in the catalog                     *)

\* one element of an entry's special_cases list: {state: {implemented,
\* variable}}
SpecialCase(state, implemented, variable) ==
    [state |-> state, implemented |-> implemented, variable |-> variable]

EntryWithCases(key, implemented, variable, idtl, special_cases) ==
    [Entry(key, implemented, variable, <<>>, idtl)
       EXCEPT !.special_cases = special_cases]

\* catalogs whose entry v10 reads adjusted_gross_income, except in
\* California, where the override names the state's income tax
OverrideCatalogs ==
    { << Entry("taxsimid", TRUE, PeVar("", "taxsimid"), <<>>, AllLevels),
         Entry("year", TRUE, PeVar("", "get_year"), <<>>, AllLevels),
         Entry("state", TRUE, PeVar("", "get_state_code"), <<>>, AllLevels),
         Entry("fiitax", TRUE, PeVar("", "income_tax"), <<>>, AllLevels),
         EntryWithCases("v10", TRUE, PeVar("", "adjusted_gross_income"), lv,
            << SpecialCase("ca", impl, PeVar("state", "_income_tax")) >>) >> :
        impl \in BOOLEAN, lv \in {AllLevels, FullLevels} }

OverrideInit ==
    /\ mappings \in OverrideCatalogs
    /\ engine = StubEngine
    /\ ext_rows \in ExtractBatches
    /\ epc = "input"
    /\ single_out = <<>>
    /\ batch_out = <<>>
    /\ disable_salt_variable = FALSE
    /\ calculated = {}
    /\ ExtractRestIdle

SpecOverride == OverrideInit /\ [][ExtractNext]_vars

\* the override of entry item that is implemented for the state of row
ImplementedOverride(item, row) ==
    SelectSeq(item.special_cases,
              LAMBDA sc : sc.state = Lower(get_state_code(row.state))
                          /\ sc.implemented)

\* C24 (as claimed): when an entry declares an override that is implemented
\* for a record's state, the batch extraction takes the record's value from
\* the override variable, which is the value the single-record extraction
\* reports for the record.
C24_BatchUsesStateOverride ==
    epc = "returned" =>
      \A i \in DOMAIN ext_rows : \A j \in DOMAIN mappings :
         LET item == mappings[j]
             row == ext_rows[i]
             over == ImplementedOverride(item, row)
         IN  (over # <<>> /\ LevelDeclared(item, row.idtl)) =>
                /\ item.key \in DOMAIN batch_out.columns
                /\ batch_out.columns[item.key][i]
                     = Cell(Round2(EngineValue(
                          ReplaceState(over[1].variable,
                                       Lower(get_state_code(row.state))),
                          row)))
                /\ batch_out.columns[item.key][i]
                     = Cell(single_out[i].fields[item.key])

----------------------------------------------------------------------------
(* PolicyEngineRunner.run on one tax year: the dataset is generated from   *)
(* the batch, then the results are extracted for the same batch            *)

MaxStateRows == 2     \* rows of the batch in this machine

\* state codes: falsy, California, Texas, and one outside the registry
RunStates == {0, 5, DefaultState, UnknownState}

RunBatches ==
    UNION { { [i \in 1..k |->
                 [taxsimid |-> i, year |-> PE_MIN_YEAR,
                  state |-> st[i], idtl |-> lv[i]]] :
              st \in [1..k -> RunStates], lv \in [1..k -> ExtractIdtls] } :
            k \in 1..MaxStateRows }

RunInit ==
    /\ ext_rows \in RunBatches
    /\ year_data = ext_rows
    /\ mappings \in Catalogs
    /\ engine = StubEngine
    /\ epc = "input" /\ bpc = "input"
    /\ single_out = <<>> /\ batch_out = <<>>
    /\ disable_salt_variable = FALSE /\ calculated = {}
    /\ situations = <<>> /\ person_data = <<>> /\ dataset = <<>>
    /\ StitchIdle /\ ConvertIdle /\ NormIdle /\ RunnerIdle /\ RoundIdle
    /\ FileIdle /\ FipsIdle

\* run, lines 847-850: _extract_vectorized_results(sim, self.input_df) on
\* the Microsimulation of the generated dataset
ExtractAfterGenerate ==
    /\ bpc = "generated"
    /\ epc = "input"
    /\ LET r == extract_vectorized_results(ext_rows)
       IN  /\ epc' = r.status
           /\ batch_out' = [columns |-> r.columns, zeroed |-> r.zeroed]
    /\ calculated' = calculated \cup BatchCalls(ext_rows)
    /\ bpc' = "computed"
    /\ UNCHANGED <<mappings, engine, ext_rows, single_out,
                   disable_salt_variable>>
    /\ UNCHANGED <<year_data, situations, person_data, dataset>>
    /\ UNCHANGED <<stitchVars, convertVars, normVars, runnerVars, roundVars,
                   fileVars, fipsVars>>

RunNext == GenerateDataset \/ ExtractAfterGenerate

SpecRun == RunInit /\ [][RunNext]_vars

\* C27 (as claimed): for every record of the batch the federal code the
\* dataset hands to the engine, the abbreviation that resolves the
\* state-templated variable names and the state code of the output row
\* denote the same state.
C27_OneStatePerRecord ==
    epc = "returned" =>
      \A i \in DOMAIN ext_rows :
         LET reported == batch_out.columns["state"][i].v
         IN  /\ reported \in DOMAIN STATE_MAPPING
             /\ state_initial(ext_rows[i]) = Lower(STATE_MAPPING[reported])
             /\ dataset["state_fips"][PE_MIN_YEAR][i]
                  = SOI_TO_FIPS_MAP[reported]

(***************************************************************************)
(* Temporary files of PolicyEngineRunner.run and TaxsimRunner.run.         *)
(* A session performs up to MaxRuns runs, one after the other; every step  *)
(* of a run that calls into other code either completes or raises.  A file *)
(* is named by the run that created it and its suffix.                     *)
(***************************************************************************)
MaxRuns == 3

NoFile == <<>>      \* None

TempNames == (1..MaxRuns) \X {".h5", ".csv", ".txt"}

FileInit ==
    /\ FileIdle
    /\ StitchIdle /\ BuildIdle /\ ExtractIdle /\ ConvertIdle /\ NormIdle
    /\ RunnerIdle /\ RoundIdle /\ FipsIdle

fileRest == <<stitchVars, buildVars, extractVars, convertVars, normVars,
    runnerVars, roundVars, fipsVars>>

\* PolicyEngineRunner.run is entered
StartPolicyEngineRun ==
    /\ tpc = "idle"
    /\ tmp_runs < MaxRuns
    /\ tmp_runs' = tmp_runs + 1
    /\ tpc' = "pe_years"
    /\ UNCHANGED <<tmp_files, input_file, output_file, raising>>
    /\ UNCHANGED fileRest

\* run, line 812: the year column is converted before anything is created;
\* a value that is not a number raises out of run
ConvertYears ==
    /\ tpc = "pe_years"
    /\ \E ok \in BOOLEAN : tpc' = IF ok THEN "pe_tmp_file" ELSE "idle"
    /\ UNCHANGED <<tmp_files, tmp_runs, input_file, output_file, raising>>
    /\ UNCHANGED fileRest

\* run, line 814 -> __init__, lines 35-37: the .h5 file is created
DatasetTempFile ==
    /\ tpc = "pe_tmp_file"
    /\ tmp_files' = tmp_files \cup {<<tmp_runs, ".h5">>}
    /\ tpc' = "pe_super"
    /\ UNCHANGED <<tmp_runs, input_file, output_file, raising>>
    /\ UNCHANGED fileRest

\* __init__, line 38: super().__init__() completes, or raises out of the
\* constructor and out of run (line 814 stands before the try of line 816)
DatasetSuperInit ==
    /\ tpc = "pe_super"
    /\ \E ok \in BOOLEAN : tpc' = IF ok THEN "pe_try" ELSE "idle"
    /\ UNCHANGED <<tmp_files, tmp_runs, input_file, output_file, raising>>
    /\ UNCHANGED fileRest

\* run, lines 816-850: generate, Microsimulation, set_input and
\* _extract_vectorized_results complete, or one of them raises
SimulateDataset ==
    /\ tpc = "pe_try"
    /\ \E ok \in BOOLEAN : raising' = ~ok
    /\ tpc' = "pe_finally"
    /\ UNCHANGED <<tmp_files, tmp_runs, input_file, output_file>>
    /\ UNCHANGED fileRest

\* run, lines 852-853 -> cleanup, lines 745-751; then run returns or the
\* exception propagates
cleanup ==
    /\ tpc = "pe_finally"
    /\ tmp_files' = tmp_files \ {<<tmp_runs, ".h5">>}
    /\ raising' = FALSE
    /\ tpc' = "idle"
    /\ UNCHANGED <<tmp_runs, input_file, output_file>>
    /\ UNCHANGED fileRest

\* TaxsimRunner.run is entered, lines 406-407
StartTaxsimRun ==
    /\ tpc = "idle"
    /\ tmp_runs < MaxRuns
    /\ tmp_runs' = tmp_runs + 1
    /\ input_file' = NoFile
    /\ output_file' = NoFile
    /\ tpc' = "tx_format"
    /\ UNCHANGED <<tmp_files, raising>>
    /\ UNCHANGED fileRest

\* _create_taxsim_input_file, line 187: _format_input_for_taxsim
FormatInput ==
    /\ tpc = "tx_format"
    /\ \E ok \in BOOLEAN :
          /\ raising' = ~ok
          /\ tpc' = IF ok THEN "tx_tmp_file" ELSE "tx_finally"
    /\ UNCHANGED <<tmp_files, tmp_runs, input_file, output_file>>
    /\ UNCHANGED fileRest

\* _create_taxsim_input_file, line 190: the .csv file is created
InputTempFile ==
    /\ tpc = "tx_tmp_file"
    /\ tmp_files' = tmp_files \cup {<<tmp_runs, ".csv">>}
    /\ tpc' = "tx_write"
    /\ UNCHANGED <<tmp_runs, input_file, output_file, raising>>
    /\ UNCHANGED fileRest

\* _create_taxsim_input_file, lines 193-214, and run, line 411: the rows are
\* written and the name is returned and bound to input_file, or writing
\* raises and input_file keeps None
WriteInputFile ==
    /\ tpc = "tx_write"
    /\ \E ok \in BOOLEAN :
          /\ raising' = ~ok
          /\ input_file' = IF ok THEN <<tmp_runs, ".csv">> ELSE input_file
          /\ tpc' = IF ok THEN "tx_mkstemp" ELSE "tx_finally"
    /\ UNCHANGED <<tmp_files, tmp_runs, output_file>>
    /\ UNCHANGED fileRest

\* run, lines 414-415: mkstemp creates the .txt file, or raises
MakeOutputFile ==
    /\ tpc = "tx_mkstemp"
    /\ \E ok \in BOOLEAN :
          /\ raising' = ~ok
          /\ tmp_files' = IF ok THEN tmp_files \cup {<<tmp_runs, ".txt">>}
                          ELSE tmp_files
          /\ output_file' = IF ok THEN <<tmp_runs, ".txt">> ELSE output_file
          /\ tpc' = IF ok THEN "tx_execute" ELSE "tx_finally"
    /\ UNCHANGED <<tmp_runs, input_file>>
    /\ UNCHANGED fileRest

\* run, lines 417-429: _execute_taxsim and _parse_taxsim_output complete,
\* or one of them raises
ExecuteTaxsim ==
    /\ tpc = "tx_execute"
    /\ \E ok \in BOOLEAN : raising' = ~ok
    /\ tpc' = "tx_finally"
    /\ UNCHANGED <<tmp_files, tmp_runs, input_file, output_file>>
    /\ UNCHANGED fileRest

\* run, lines 431-438: the finally block unlinks the files input_file and
\* output_file name; then run returns or the exception propagates
RemoveTempFiles ==
    /\ tpc = "tx_finally"
    /\ tmp_files' = tmp_files \ {input_file, output_file}
    /\ input_file' = NoFile
    /\ output_file' = NoFile
    /\ raising' = FALSE
    /\ tpc' = "idle"
    /\ UNCHANGED tmp_runs
    /\ UNCHANGED fileRest

FileNext ==
    \/ StartPolicyEngineRun
    \/ ConvertYears
    \/ DatasetTempFile
    \/ DatasetSuperInit
    \/ SimulateDataset
    \/ cleanup
    \/ StartTaxsimRun
    \/ FormatInput
    \/ InputTempFile
    \/ WriteInputFile
    \/ MakeOutputFile
    \/ ExecuteTaxsim
    \/ RemoveTempFiles

\* a run, once entered, keeps executing
SpecFiles == FileInit /\ [][FileNext]_vars /\ WF_vars(FileNext)

\* C29 (as claimed): every temporary file created during a run is
\* eventually removed, whether the run returns or raises at any step.
C29_TempFilesEventuallyRemoved ==
    \A f \in TempNames : (f \in tmp_files) ~> (f \notin tmp_files)

\* what the two finally blocks do guarantee: between runs, the files left
\* on disk are input files whose writing raised and dataset files whose
\* constructor raised, never an output file
LeftoverFilesAreUnbound ==
    tpc = "idle" => \A f \in tmp_files : f[2] \in {".h5", ".csv"}

(***************************************************************************)
(* State codes of an H5 extract: h5_to_taxsim_format turns the federal     *)
(* code stored for each household back into a compact code.                *)
(***************************************************************************)
MaxFipsRows == 2

\* convert_fips_to_taxsim_state's local table, lines 232-283
fips_mapping ==
    (2 :> 2) @@ (4 :> 3) @@ (5 :> 4) @@ (6 :> 5) @@ (8 :> 6) @@
    (9 :> 7) @@ (10 :> 8) @@ (11 :> 9) @@ (12 :> 10) @@ (13 :> 11) @@
    (15 :> 12) @@ (16 :> 13) @@ (17 :> 14) @@ (18 :> 15) @@ (19 :> 16) @@
    (20 :> 17) @@ (21 :> 18) @@ (22 :> 19) @@ (23 :> 20) @@ (24 :> 21) @@
    (25 :> 22) @@ (26 :> 23) @@ (27 :> 24) @@ (28 :> 25) @@ (29 :> 26) @@
    (30 :> 27) @@ (31 :> 28) @@ (32 :> 29) @@ (33 :> 30) @@ (34 :> 31) @@
    (35 :> 32) @@ (36 :> 33) @@ (37 :> 34) @@ (38 :> 35) @@ (39 :> 36) @@
    (40 :> 37) @@ (41 :> 38) @@ (42 :> 39) @@ (44 :> 40) @@ (45 :> 41) @@
    (46 :> 42) @@ (47 :> 43) @@ (48 :> 44) @@ (49 :> 45) @@ (50 :> 46) @@
    (51 :> 47) @@ (53 :> 48) @@ (54 :> 49) @@ (55 :> 50) @@ (56 :> 51)

\* mapping.get(fips_code, 0)
convert_fips_to_taxsim_state(fips_code) ==
    IF fips_code \in DOMAIN fips_mapping THEN fips_mapping[fips_code] ELSE 0

\* the compact codes of the households, each stored as SOI_TO_FIPS_MAP[c]
FipsInit ==
    /\ state_codes \in UNION { [1..k -> DOMAIN SOI_TO_FIPS_MAP] :
                               k \in 1..MaxFipsRows }
    /\ taxsim_state = <<>>
    /\ fpc = "input"
    /\ StitchIdle /\ BuildIdle /\ ExtractIdle /\ ConvertIdle /\ NormIdle
    /\ RunnerIdle /\ RoundIdle /\ FileIdle

\* h5_to_taxsim_format, lines 383-385, for every household
ConvertStateCodes ==
    /\ fpc = "input"
    /\ taxsim_state' =
         [i \in DOMAIN state_codes |->
            convert_fips_to_taxsim_state(SOI_TO_FIPS_MAP[state_codes[i]])]
    /\ fpc' = "converted"
    /\ UNCHANGED state_codes
    /\ UNCHANGED <<stitchVars, buildVars, extractVars, convertVars, normVars,
                   runnerVars, roundVars, fileVars>>

FipsNext == ConvertStateCodes

SpecFips == FipsInit /\ [][FipsNext]_vars

\* C30 (as claimed): for every compact state code c from 1 to 51,
\* convert_fips_to_taxsim_state(SOI_TO_FIPS_MAP[c]) = c.
C30_FipsConversionInvertsTable ==
    fpc = "converted" =>
      \A i \in DOMAIN state_codes : taxsim_state[i] = state_codes[i]

\* the conversion does invert the table on every code but the first
InvertsTableFromAlaskaOn ==
    fpc = "converted" =>
      \A i \in DOMAIN state_codes :
         state_codes[i] >= 2 => taxsim_state[i] = state_codes[i]

(***************************************************************************)
(* The whole program: any one of the machines above, started in its own    *)
(* initial state, the others staying idle.                                 *)
(***************************************************************************)
Init ==
    \/ StitchInit
    \/ BuildInit
    \/ ExtractInit
    \/ ConvertInit
    \/ RoundInit
    \/ DatasetInit
    \/ RunnerInit
    \/ NormInit
    \/ OverrideInit
    \/ CrowdInit
    \/ RunInit
    \/ FileInit
    \/ FipsInit

Next ==
    \/ StitchNext
    \/ BuildNext
    \/ ExtractNext
    \/ ConvertNext
    \/ RoundNext
    \/ DatasetNext
    \/ RunnerNext
    \/ NormNext
    \/ RunNext
    \/ FileNext
    \/ FipsNext

Spec == Init /\ [][Next]_vars

====
